---- MODULE Spec2Model ----
(***************************************************************************)
(* A model of the rosebud-threejs-game-engine runtime (GameSystems) and of *)
(* the systems it schedules, as used by the game in "Nova pasta".          *)
(*                                                                         *)
(*  - engine: resource registry, setup scheduler (init), frame scheduler   *)
(*    (update), from src/Nova pasta/rosebud-threejs-game-engine.js         *)
(*  - sceneManagementSystem: mesh creation and disposal of derived objects *)
(*  - triggerDetectionSystem: detector/zone overlap events                 *)
(*  - animationSystem: the declarative state machine interpreter           *)
(***************************************************************************)
EXTENDS Integers, Sequences, FiniteSets, TLC

VARIABLES
    \* ---- GameSystems (engine) ----
    resources,       \* this.resources: insertion-ordered Map, as a sequence of entries
    setupSystems,    \* this.setupSystems
    runtimeSystems,  \* this.runtimeSystems
    initialized,     \* this.initialized
    pc,              \* position of the init() call: config | factory | setup | done | failed
    ri,              \* index in resources of the factory being awaited
    si,              \* index in setupSystems of the init being awaited
    completed,       \* init()'s local set 'completed'
    inProgress,      \* init()'s local set 'inProgress'
    initError,       \* the error init() rejected with
    setupLog,        \* trace of setup init invocations: <<[ev, name]>>
    initCalls,       \* number of init() calls made
    loops,           \* number of frame loops started by start()
    factoryLog,      \* trace of resource factory invocations: <<[ev, name, call]>>
    lastCall,        \* the latest registry call made by the game: [op, name, threw]
    \* ---- frame scheduler ----
    frameNo,         \* number of update() calls made
    lastRun,         \* systems whose update was invoked by the latest update(), in order
    prevRun,         \* the same for the update() before it
    renders,         \* number of render passes performed
    \* ---- sceneManagementSystem ----
    ents,            \* every entity object created so far: id -> its components
    world,           \* the entity store: ids of the entities in it, in insertion order
    trackedMeshes,   \* Map mesh -> entity, insertion ordered
    trackedPhysicsBodies, \* Map physicsBody -> entity, insertion ordered
    scene,           \* meshes in renderer.scene
    calls,           \* per mesh/body counters of factory, scene and physics-world calls
    passNo,          \* number of sceneManagement passes made
    passFailed,      \* whether the latest sceneManagement pass threw
    removedAt,       \* removed entity -> the pass count and its tracked objects at removal
    lastOutcome,     \* entity -> what its mesh factory did when last invoked
    \* ---- triggerDetectionSystem ----
    detectors,       \* detector entities in the store (sequence, query order)
    zones,           \* zone entities in the store (sequence, query order)
    overlap,         \* geometric truth: set of <<detector key, zone key>> with distance < radii
    prevOverlap,     \* the same at the previous triggerDetection pass
    emitted,         \* events emitted by the latest triggerDetection pass
    lastEvent,       \* per pair, the latest event emitted for it ("none" | "entered" | "exited")
    doubleEnter,     \* pairs that got two enters without an exit in between
    trigPasses,      \* number of triggerDetection passes made
    \* ---- animationSystem ----
    stateMachine,    \* the entity's stateMachine component
    movementState,   \* the entity's movementState component (speed in tenths, grounded)
    animationMixer,  \* the entity's animationMixer component: currentAnimation, mixer time
    fsmTrace,        \* the latest evaluation: [from, speed, grounded, to]
    evals,           \* number of animationSystem evaluations made
    smCreation,      \* the createStateMachine call made for the entity: [definition, made, threw]
    \* ---- physics body creation ----
    bodyEnts,        \* entities with a body-factory tag: [tag, ready, body, factoryCalls]
    bodySetupRan,    \* whether the physicsBodyCreation setup routine has run
    sweeps,          \* number of mesh-collision-retry sweeps made
    \* ---- characterControllerCollisionSystem ----
    characterControllerCollisions, \* the controller entity's tracker: two Maps id -> entity
    ctrlEmitted,     \* events emitted by the latest controller collision pass
    ctrlTouched,     \* entities in the sweep results of the latest pass
    ctrlPrevTouched, \* the same at the pass before it
    ctrlPasses,      \* number of controller collision passes made
    \* ---- GameSystems event bus ----
    eventListeners,  \* this.eventListeners: event name -> array of callbacks
    busLog,          \* the listener invocations of the latest outermost emit, in order
    busThrew,        \* whether the latest outermost emit threw to its caller
    busEvent,        \* the event name of the latest outermost emit
    emits,           \* number of outermost emit() calls made
    \* ---- collisionSystem ----
    contactQueue,    \* the contact events handed out by the latest drainCollisionEvents
    contactEmitted,  \* events emitted by the latest collisionSystem pass
    contactThrew,    \* whether the latest collisionSystem pass threw
    drains,          \* number of collisionSystem passes made
    \* ---- componentMovementSystem ----
    kinMovement,     \* the controller entity's movementState: velocity, direction
    rigidBody,       \* its physicsBody.rigidBody: translation, yaw, next kinematic translation
    ctrlSweeps,      \* number of ctrl.computeColliderMovement calls made
    rotationsSet,    \* number of body.setRotation calls made
    movePasses,      \* number of componentMovementSystem passes made
    \* ---- init() calls overlapping at an await ----
    suspended,       \* the init() call waiting at an await while another one runs
    detached,        \* whether the awaited factory's registry entry was replaced meanwhile
    \* ---- harvest: removeSugarcane ----
    placed,          \* every environment object ever added: whether it has isSugarcane
    storeEntities,   \* the store's entity array
    sugarcaneQuery,  \* the entity array of world.with("isSugarcane")
    harvestVisited,  \* the entities the latest removeSugarcane loop visited, in order
    harvests,        \* number of removeSugarcane calls made
    \* ---- game cycle ----
    gamePhase,       \* the store's gamePhase
    currentYear,     \* the store's currentYear
    performanceHistory, \* per recorded year, whether it met the win thresholds
    startTimers,     \* number of pending setTimeout callbacks that call startNewYear
    winScreen,       \* whether the win screen is displayed
    actionButton,    \* whether the main action button is displayed
    restarts         \* number of restartGame calls made

engineVars == <<resources, setupSystems, runtimeSystems, initialized, pc, ri, si,
                completed, inProgress, initError, setupLog, initCalls, loops,
                factoryLog, lastCall>>
frameVars == <<frameNo, lastRun, prevRun, renders>>
reentryVars == <<suspended, detached>>
harvestVars == <<placed, storeEntities, sugarcaneQuery, harvestVisited, harvests>>
cycleVars == <<gamePhase, currentYear, performanceHistory, startTimers, winScreen,
               actionButton, restarts>>
sceneVars == <<ents, world, trackedMeshes, trackedPhysicsBodies, scene, calls,
               passNo, passFailed, removedAt, lastOutcome>>
trigVars == <<detectors, zones, overlap, prevOverlap, emitted, lastEvent, doubleEnter,
              trigPasses>>
fsmVars == <<stateMachine, movementState, animationMixer, fsmTrace, evals, smCreation>>
bodyVars == <<bodyEnts, bodySetupRan, sweeps>>
ctrlVars == <<characterControllerCollisions, ctrlEmitted, ctrlTouched, ctrlPrevTouched,
              ctrlPasses>>
busVars == <<eventListeners, busLog, busThrew, busEvent, emits>>
contactVars == <<contactQueue, contactEmitted, contactThrew, drains>>
moveVars == <<kinMovement, rigidBody, ctrlSweeps, rotationsSet, movePasses>>
vars == <<engineVars, frameVars, sceneVars, trigVars, fsmVars, bodyVars, ctrlVars, busVars, contactVars, moveVars,
                   reentryVars, harvestVars, cycleVars>>

None == "none"

\* const years = [2020, 2021, 2022, 2023, 2024]
FirstYear == 2020
LastYear == 2024

\* ---------------------------------------------------------------- bounds
MaxGameSetups == 3
MaxGameSystems == 3
MaxFrames == 2
MaxInitCalls == 2
MaxEntities == 2
MaxPasses == 3
MaxDetectors == 2
MaxZones == 1
MaxTrigPasses == 3
MaxEvals == 3
MaxGameResources == 1
MaxRegistryCalls == 3
MaxBodyEntities == 2
MaxSweeps == 2
MaxCollisions == 2
MaxCtrlPasses == 3
MaxListeners == 2
MaxEmits == 2
MaxContacts == 2
MaxDrains == 2
MaxMovePasses == 3
MaxPlaced == 4
MaxHarvests == 2
MaxRestarts == 1

\* ------------------------------------------------------------ sequences
Range(s) == {s[i] : i \in 1..Len(s)}

RECURSIVE SeqOfSet(_)
SeqOfSet(S) == IF S = {} THEN <<>>
               ELSE LET x == CHOOSE y \in S : TRUE IN <<x>> \o SeqOfSet(S \ {x})

\* --------------------------------------------------- resource registry
\* An entry of this.resources: { factory, instance }, keyed by name.
ResEntry(n, f, i) == [name |-> n, factory |-> f, inst |-> i]

\* Instances are told apart by a number: null, the object a factory or a setup
\* routine of the engine or of main() builds, and objects the game passes to
\* addResource on its own
NullInstance == 0
BuiltInstance == 1
GameInstances == {2}

ResIndex(res, n) == IF \E i \in 1..Len(res) : res[i].name = n
                    THEN CHOOSE i \in 1..Len(res) : res[i].name = n
                    ELSE 0

ResHas(res, n) == ResIndex(res, n) # 0

\* resource && resource.instance
ResAvailable(res, n) == ResHas(res, n) /\ res[ResIndex(res, n)].inst # NullInstance

\* Map.prototype.set: an existing key keeps its place, a new key goes last.
MapSet(res, e) == IF ResHas(res, e.name)
                  THEN [res EXCEPT ![ResIndex(res, e.name)] = e]
                  ELSE Append(res, e)

\* registerResource(name, factory), before initialization
registerResource(res, n) == MapSet(res, ResEntry(n, TRUE, NullInstance))

\* addResource without the exception made for eventBus
addResourceThrowsForAll(res, n) == ResAvailable(res, n)

\* addResource(name, instance): throws when the name holds an instance, except eventBus
addResourceThrows(res, n) == ResAvailable(res, n) /\ n # "eventBus"

\* addResource(name, instance): the registry after the call, which is the registry
\* before it when the call throws
addResource(res, n, v) ==
    IF addResourceThrows(res, n) THEN res ELSE MapSet(res, ResEntry(n, FALSE, v))

\* getResource(name) throws unless the name holds an instance
getResourceThrows(res, n) == ~ResHas(res, n) \/ res[ResIndex(res, n)].inst = NullInstance

\* _getDependencies that takes every registered name, constructed or not
DepsRegistered(res, deps) == \A k \in 1..Len(deps) : ResHas(res, deps[k])

\* _getDependencies(dependencyNames) throws unless every name holds an instance
DepsAvailable(res, deps) == \A k \in 1..Len(deps) : ResAvailable(res, deps[k])

FirstMissing(res, deps) ==
    LET k == CHOOSE j \in 1..Len(deps) :
                 /\ ~ResAvailable(res, deps[j])
                 /\ \A h \in 1..(j - 1) : ResAvailable(res, deps[h])
    IN deps[k]

\* -------------------------------------------------- what gets registered
SetupDef(n, d, p) == [name |-> n, deps |-> d, pub |-> p]
SystemDef(n, d, p, g) == [name |-> n, deps |-> d, priority |-> p, game |-> g]

\* The setup routines main() registers that take part in resource publication,
\* and three routines that form a dependency cycle through published resources.
GameSetupCatalogue == {
    SetupDef("game-terrain-setup", <<"physics", "renderer">>, "terrain"),
    SetupDef("game-player-setup", <<"physics", "renderer", "assets", "terrain">>, None),
    SetupDef("collectible-system-setup", <<"eventBus">>, None),
    SetupDef("cycA", <<"resC">>, "resA"),
    SetupDef("cycB", <<"resA">>, "resB"),
    SetupDef("cycC", <<"resB">>, "resC") }

MainSetups == <<
    SetupDef("game-terrain-setup", <<"physics", "renderer">>, "terrain"),
    SetupDef("game-player-setup", <<"physics", "renderer", "assets", "terrain">>, None),
    SetupDef("collectible-system-setup", <<"eventBus">>, None) >>

GameSystemCatalogue == {
    SystemDef("player-movement", <<>>, 30, TRUE),
    SystemDef("animal-ai", <<"terrain">>, 40, TRUE),
    SystemDef("mesh-collision-retry", <<"physics">>, 900, TRUE) }

MainSystems == <<
    SystemDef("player-movement", <<>>, 30, TRUE),
    SystemDef("animal-ai", <<"terrain">>, 40, TRUE),
    SystemDef("mesh-collision-retry", <<"physics">>, 900, TRUE) >>

CoreResources == <<"renderer", "physics", "input", "assets">>

CoreSetups == <<
    SetupDef("lighting", <<"renderer">>, "lighting"),
    SetupDef("physicsBodyCreation", <<"physics">>, None),
    SetupDef("camera", <<"renderer">>, "camera") >>

CoreSystems == <<
    SystemDef("inputInterpretation", <<"input">>, 10, FALSE),
    SystemDef("cameraInput", <<"camera">>, 20, FALSE),
    SystemDef("pointerLock", <<"camera", "input">>, 21, FALSE),
    SystemDef("componentMovement", <<"physics">>, 35, FALSE),
    SystemDef("physicsStep", <<"physics">>, 40, FALSE),
    SystemDef("characterControllerCollisionProcessing", <<"physics", "eventBus">>, 41, FALSE),
    SystemDef("collisionProcessing", <<"physics", "eventBus">>, 42, FALSE),
    SystemDef("triggerDetection", <<"eventBus">>, 43, FALSE),
    SystemDef("physicsStateSync", <<"physics">>, 45, FALSE),
    SystemDef("sceneManagement", <<"assets", "renderer", "physics">>, 50, FALSE),
    SystemDef("animationSetup", <<>>, 52, FALSE),
    SystemDef("animation", <<>>, 55, FALSE),
    SystemDef("parenting", <<>>, 60, FALSE),
    SystemDef("transformSync", <<>>, 65, FALSE),
    SystemDef("camera-collision", <<"camera">>, 74, FALSE),
    SystemDef("cameraUpdate", <<"camera">>, 75, FALSE) >>

\* ------------------------------------------------------- registration
\* An unstable sort: an element goes before the elements of equal priority
InsertBeforeEqual(s, x) ==
    LET k == Cardinality({i \in 1..Len(s) : s[i].priority < x.priority})
    IN SubSeq(s, 1, k) \o <<x>> \o SubSeq(s, k + 1, Len(s))

\* Array.prototype.sort with (a, b) => a.priority - b.priority: a stable sort.
InsertByPriority(s, x) ==
    LET k == Cardinality({i \in 1..Len(s) : s[i].priority <= x.priority})
    IN SubSeq(s, 1, k) \o <<x>> \o SubSeq(s, k + 1, Len(s))

RECURSIVE SortByPriority(_)
SortByPriority(s) ==
    IF s = <<>> THEN <<>>
    ELSE InsertByPriority(SortByPriority(SubSeq(s, 1, Len(s) - 1)), s[Len(s)])

\* The object pushed by registerSystem; seq tells the objects of the list apart
\* by the position of their registration
Registered(d, n) ==
    [name |-> d.name, deps |-> d.deps, priority |-> d.priority, game |-> d.game, seq |-> n]

\* registerSystem without the trailing sort
registerSystemNoSort(systems, d) == Append(systems, Registered(d, Len(systems) + 1))

\* registerSystem(name, {update, dependencies, priority}): push, then sort
registerSystem(systems, d) ==
    SortByPriority(Append(systems, Registered(d, Len(systems) + 1)))

\* registerSetup(name, {init, dependencies}): push
registerSetup(setups, d) == Append(setups, d)

RECURSIVE RegisterAllResources(_, _)
RegisterAllResources(res, names) ==
    IF names = <<>> THEN res
    ELSE RegisterAllResources(registerResource(res, Head(names)), Tail(names))

RECURSIVE RegisterAllSystems(_, _)
RegisterAllSystems(systems, defs) ==
    IF defs = <<>> THEN systems
    ELSE RegisterAllSystems(registerSystem(systems, Head(defs)), Tail(defs))

\* _registerCoreSystems(): eventBus, the four core resources, the three core
\* setup routines and the core runtime systems
CoreRegisteredResources(res) ==
    RegisterAllResources(addResource(res, "eventBus", BuiltInstance), CoreResources)

CoreRegisteredSetups(setups) == setups \o CoreSetups

CoreRegisteredSystems(systems) == RegisterAllSystems(systems, CoreSystems)

\* ------------------------------------------------------ frame scheduler
\* update(): each system in list order inside its own try/catch; a system whose
\* dependencies cannot be resolved is not invoked (the error is caught and logged).
\* thr: the positions whose update throws when invoked.
RECURSIVE RunFrom(_, _, _, _)
RunFrom(systems, res, thr, i) ==
    IF i > Len(systems) THEN <<>>
    ELSE (IF DepsAvailable(res, systems[i].deps)
          THEN <<[name |-> systems[i].name, priority |-> systems[i].priority,
                  seq |-> systems[i].seq, threw |-> i \in thr]>>
          ELSE <<>>) \o RunFrom(systems, res, thr, i + 1)

\* render(): getResource("renderer") and getResource("camera") throw when unavailable
RenderOk(res) == ~getResourceThrows(res, "renderer") /\ ~getResourceThrows(res, "camera")

\* update() with the per-system try/catch missing: the first throw ends the frame
UpdateNoCatch(systems, res, thr) ==
    LET full == RunFrom(systems, res, thr, 1)
        bad == {k \in 1..Len(full) : full[k].threw}
        cut == IF bad = {} THEN Len(full) ELSE CHOOSE k \in bad : \A h \in bad : k <= h
    IN [run |-> SubSeq(full, 1, cut), rendered |-> bad = {} /\ RenderOk(res)]

\* update(deltaTime), once initialized
Update(systems, res, thr) ==
    [run |-> RunFrom(systems, res, thr, 1), rendered |-> RenderOk(res)]

\* The systems the game registered are the ones whose update may throw.
ThrowSets(systems) == SUBSET {i \in 1..Len(systems) : systems[i].game}

FrameEffects(thr) ==
    LET u == Update(runtimeSystems, resources, thr)
    IN /\ frameNo' = frameNo + 1
       /\ prevRun' = lastRun
       /\ lastRun' = u.run
       /\ renders' = renders + (IF u.rendered THEN 1 ELSE 0)

\* --------------------------------------------------------------- errors
NoError == [kind |-> None, name |-> None, cause |-> None]
Err(k, n, c) == [kind |-> k, name |-> n, cause |-> c]

\* ------------------------------------------------------ engine actions
NoCall == [op |-> None, name |-> None, arg |-> NullInstance, threw |-> FALSE, n |-> 0]
Call(op, name, arg, threw) ==
    [op |-> op, name |-> name, arg |-> arg, threw |-> threw, n |-> lastCall.n + 1]

\* The registrations the game makes: before it calls init(), and after init() is over
RegistrationTime == initCalls = 0 \/ pc = "done"

\* the register* methods with their check of this.initialized missing
registerNeverThrows(init) == FALSE

\* if (this.initialized) throw new Error("Cannot register ... after initialization")
registerThrows(init) == init

GameSetupCount ==
    Cardinality({k \in 1..Len(setupSystems) :
                    \A c \in 1..Len(CoreSetups) : setupSystems[k].name # CoreSetups[c].name})
GameSystemCount == Cardinality({k \in 1..Len(runtimeSystems) : runtimeSystems[k].game})
GameResourceCount ==
    Cardinality({k \in 1..Len(resources) :
                    resources[k].name \notin Range(CoreResources) \cup {"eventBus"}})

\* engine.registerResource(name, factory)
RegisterResource(n) ==
    /\ RegistrationTime
    /\ lastCall.n < MaxRegistryCalls
    /\ lastCall' = Call("registerResource", n, NullInstance, registerThrows(initialized))
    /\ IF registerThrows(initialized)
       THEN UNCHANGED resources
       ELSE /\ ResHas(resources, n) \/ GameResourceCount < MaxGameResources
            /\ resources' = registerResource(resources, n)
    /\ UNCHANGED <<setupSystems, runtimeSystems, initialized, pc, ri, si, completed,
                   inProgress, initError, setupLog, initCalls, loops, factoryLog>>
    /\ UNCHANGED <<frameVars, sceneVars, trigVars, fsmVars, bodyVars, ctrlVars, busVars, contactVars, moveVars,
                   reentryVars, harvestVars, cycleVars>>

\* engine.registerSetup(name, {init, dependencies})
RegisterSetup(d) ==
    /\ RegistrationTime
    /\ lastCall.n < MaxRegistryCalls
    /\ lastCall' = Call("registerSetup", d.name, NullInstance, registerThrows(initialized))
    /\ IF registerThrows(initialized)
       THEN UNCHANGED setupSystems
       ELSE /\ GameSetupCount < MaxGameSetups
            /\ setupSystems' = registerSetup(setupSystems, d)
    /\ UNCHANGED <<resources, runtimeSystems, initialized, pc, ri, si, completed,
                   inProgress, initError, setupLog, initCalls, loops, factoryLog>>
    /\ UNCHANGED <<frameVars, sceneVars, trigVars, fsmVars, bodyVars, ctrlVars, busVars, contactVars, moveVars,
                   reentryVars, harvestVars, cycleVars>>

\* engine.registerSystem(name, {update, dependencies, priority})
RegisterSystem(d) ==
    /\ RegistrationTime
    /\ lastCall.n < MaxRegistryCalls
    /\ lastCall' = Call("registerSystem", d.name, NullInstance, registerThrows(initialized))
    /\ IF registerThrows(initialized)
       THEN UNCHANGED runtimeSystems
       ELSE /\ GameSystemCount < MaxGameSystems
            /\ runtimeSystems' = registerSystem(runtimeSystems, d)
    /\ UNCHANGED <<resources, setupSystems, initialized, pc, ri, si, completed,
                   inProgress, initError, setupLog, initCalls, loops, factoryLog>>
    /\ UNCHANGED <<frameVars, sceneVars, trigVars, fsmVars, bodyVars, ctrlVars, busVars, contactVars, moveVars,
                   reentryVars, harvestVars, cycleVars>>

\* engine.addResource(name, instance), called by the game outside a setup routine
AddResource(n, v) ==
    /\ RegistrationTime
    /\ lastCall.n < MaxRegistryCalls
    /\ lastCall' = Call("addResource", n, v, addResourceThrows(resources, n))
    /\ resources' = addResource(resources, n, v)
    /\ UNCHANGED <<setupSystems, runtimeSystems, initialized, pc, ri, si, completed,
                   inProgress, initError, setupLog, initCalls, loops, factoryLog>>
    /\ UNCHANGED <<frameVars, sceneVars, trigVars, fsmVars, bodyVars, ctrlVars, busVars, contactVars, moveVars,
                   reentryVars, harvestVars, cycleVars>>

\* the loop over this.resources taking the entries that have a factory from the
\* last one to the first
NextFactoryBackwards(res, i) ==
    LET todo == {k \in 1..Len(res) : res[k].factory /\ (i = 0 \/ k < i)}
    IN IF todo = {} THEN 0 ELSE CHOOSE k \in todo : \A h \in todo : h <= k

\* The next entry of this.resources, after position i, that has a factory (0: none).
NextFactory(res, i) ==
    IF \E k \in (i + 1)..Len(res) : res[k].factory
    THEN CHOOSE k \in (i + 1)..Len(res) :
             res[k].factory /\ \A h \in (i + 1)..(k - 1) : ~res[h].factory
    ELSE 0

FactoryEvent(ev, n) == [ev |-> ev, name |-> n, call |-> initCalls]

\* init(gameConfig) up to its first await
init ==
    /\ initCalls' = initCalls + 1
    /\ IF initialized
       THEN /\ pc' = "failed"
            /\ initError' = Err("alreadyInitialized", None, None)
            /\ UNCHANGED <<resources, setupSystems, runtimeSystems, ri, si,
                           completed, inProgress, setupLog, factoryLog>>
       ELSE LET res == CoreRegisteredResources(resources)
                nf == NextFactory(res, 0)
            IN /\ resources' = res
               /\ setupSystems' = CoreRegisteredSetups(setupSystems)
               /\ runtimeSystems' = CoreRegisteredSystems(runtimeSystems)
               /\ initError' = NoError
               /\ setupLog' = <<>>
               /\ completed' = {}
               /\ inProgress' = {}
               /\ ri' = nf
               /\ si' = 1
               /\ pc' = IF nf = 0 THEN "setupNext" ELSE "factory"
               /\ factoryLog' = IF nf = 0 THEN factoryLog
                                ELSE Append(factoryLog,
                                            [ev |-> "start", name |-> res[nf].name,
                                             call |-> initCalls + 1])
    /\ UNCHANGED <<initialized, loops, lastCall>>
    /\ UNCHANGED <<frameVars, sceneVars, trigVars, fsmVars, bodyVars, ctrlVars, busVars, contactVars, moveVars,
                   reentryVars, harvestVars, cycleVars>>

\* main(): await engine.init({ ...GAME_CONFIG, canvas })
InitCall ==
    /\ pc = "config"
    /\ initCalls = 0
    /\ init

\* engine.init(...) called again, after an init() that failed or succeeded
InitAgain ==
    /\ pc \in {"failed", "done"}
    /\ initCalls > 0
    /\ initCalls < MaxInitCalls
    /\ init

\* What an awaited factory settles with: an object, a falsy value, or a rejection.
\* The factories of the core resources build an object or reject.
FactorySettles == {"instance", "empty", "throw"}

\* resource.instance = await resource.factory(gameConfig): the awaited factory settles
FactoryDone(out) ==
    /\ pc = "factory"
    /\ out = "empty" => resources[ri].name \notin Range(CoreResources)
    /\ IF out # "throw"
       THEN LET nf == NextFactory(resources, ri)
                done == Append(factoryLog, FactoryEvent("end", resources[ri].name))
            IN /\ resources' = [resources EXCEPT ![ri].inst =
                                   IF out = "instance" THEN BuiltInstance ELSE NullInstance]
               /\ ri' = nf
               /\ pc' = IF nf = 0 THEN "setupNext" ELSE "factory"
               /\ factoryLog' = IF nf = 0 THEN done
                                ELSE Append(done, FactoryEvent("start", resources[nf].name))
               /\ UNCHANGED initError
       ELSE /\ pc' = "failed"
            /\ initError' = Err("factoryFailed", resources[ri].name, "factory error")
            /\ factoryLog' = Append(factoryLog, FactoryEvent("throw", resources[ri].name))
            /\ UNCHANGED <<resources, ri>>
    /\ UNCHANGED <<setupSystems, runtimeSystems, initialized, si, completed,
                   inProgress, setupLog, initCalls, loops, lastCall>>
    /\ UNCHANGED <<frameVars, sceneVars, trigVars, fsmVars, bodyVars, ctrlVars, busVars, contactVars, moveVars,
                   reentryVars, harvestVars, cycleVars>>

\* _runSetupSystem without its loop over setup.dependencies
UnknownDepsUnchecked(res, deps) == {}

\* for (const depName of setup.dependencies) if (!this.resources.has(depName)) throw
UnknownDeps(res, deps) == {k \in 1..Len(deps) : ~ResHas(res, deps[k])}

\* _runSetupSystem without its early return
NeverCompleted(done, n) == FALSE

\* if (completed.has(setup.name)) return
AlreadyCompleted(done, n) == n \in done

\* _runSetupSystem(setup, completed, inProgress, gameConfig) up to await setup.init(...)
SetupBegin ==
    /\ pc = "setupNext"
    /\ si <= Len(setupSystems)
    /\ LET setup == setupSystems[si]
           unknown == UnknownDeps(resources, setup.deps)
       IN IF AlreadyCompleted(completed, setup.name)
          THEN /\ si' = si + 1
               /\ UNCHANGED <<pc, inProgress, initError, setupLog>>
          ELSE IF setup.name \in inProgress
          THEN /\ pc' = "failed"
               /\ initError' = Err("circular", setup.name, None)
               /\ UNCHANGED <<si, inProgress, setupLog>>
          ELSE IF unknown # {}
          THEN /\ pc' = "failed"
               /\ initError' = Err("unknownResource", setup.name,
                                   setup.deps[CHOOSE k \in unknown : \A h \in unknown : k <= h])
               /\ UNCHANGED <<si, inProgress, setupLog>>
          ELSE IF ~DepsAvailable(resources, setup.deps)
          THEN /\ pc' = "failed"
               /\ initError' = Err("setupFailed", setup.name,
                                   <<"not available", FirstMissing(resources, setup.deps)>>)
               /\ UNCHANGED <<si, inProgress, setupLog>>
          ELSE /\ pc' = "setup"
               /\ inProgress' = inProgress \cup {setup.name}
               /\ setupLog' = Append(setupLog, [ev |-> "start", name |-> setup.name])
               /\ UNCHANGED <<si, initError>>
    /\ UNCHANGED <<resources, setupSystems, runtimeSystems, initialized, ri, completed,
                   initCalls, loops, factoryLog, lastCall>>
    /\ UNCHANGED <<frameVars, sceneVars, trigVars, fsmVars, bodyVars, ctrlVars, busVars, contactVars, moveVars,
                   reentryVars, harvestVars, cycleVars>>

\* _runSetupSystem with the error of a failing init logged instead of rethrown: the
\* boot goes on with the next routine
SetupEndContinue(ok) ==
    /\ pc = "setup"
    /\ LET setup == setupSystems[si]
           pubThrows == setup.pub # None /\ addResourceThrows(resources, setup.pub)
       IN IF ok /\ ~pubThrows
          THEN /\ resources' = IF setup.pub = None THEN resources
                               ELSE addResource(resources, setup.pub, BuiltInstance)
               /\ completed' = completed \cup {setup.name}
               /\ setupLog' = Append(setupLog, [ev |-> "end", name |-> setup.name])
          ELSE /\ setupLog' = Append(setupLog, [ev |-> "throw", name |-> setup.name])
               /\ UNCHANGED <<resources, completed>>
    /\ inProgress' = inProgress \ {setupSystems[si].name}
    /\ si' = si + 1
    /\ pc' = "setupNext"
    /\ UNCHANGED <<initError, setupSystems, runtimeSystems, initialized, ri, initCalls, loops,
                   factoryLog, lastCall>>
    /\ UNCHANGED <<frameVars, sceneVars, trigVars, fsmVars, bodyVars, ctrlVars, busVars, contactVars, moveVars,
                   reentryVars, harvestVars, cycleVars>>

\* await setup.init(...) settles: the routine publishes its resource as its last
\* statement (engine.addResource), or its init throws
SetupEnd(ok) ==
    /\ pc = "setup"
    /\ LET setup == setupSystems[si]
           pubThrows == setup.pub # None /\ addResourceThrows(resources, setup.pub)
       IN IF ok /\ ~pubThrows
          THEN /\ resources' = IF setup.pub = None THEN resources
                               ELSE addResource(resources, setup.pub, BuiltInstance)
               /\ completed' = completed \cup {setup.name}
               /\ inProgress' = inProgress \ {setup.name}
               /\ setupLog' = Append(setupLog, [ev |-> "end", name |-> setup.name])
               /\ si' = si + 1
               /\ pc' = "setupNext"
               /\ UNCHANGED initError
          ELSE /\ inProgress' = inProgress \ {setup.name}
               /\ setupLog' = Append(setupLog, [ev |-> "throw", name |-> setup.name])
               /\ pc' = "failed"
               /\ initError' = Err("setupFailed", setup.name,
                                   IF ok THEN <<"already exists", setup.pub>>
                                   ELSE <<"init error", setup.name>>)
               /\ UNCHANGED <<resources, completed, si>>
    /\ UNCHANGED <<setupSystems, runtimeSystems, initialized, ri, initCalls, loops,
                   factoryLog, lastCall>>
    /\ UNCHANGED <<frameVars, sceneVars, trigVars, fsmVars, bodyVars, ctrlVars, busVars, contactVars, moveVars,
                   reentryVars, harvestVars, cycleVars>>

\* init(): after the last setup routine: this.initialized = true; this.start(),
\* whose animate() runs the first update() at once
BootFinish(thr) ==
    /\ pc = "setupNext"
    /\ si > Len(setupSystems)
    /\ thr \in ThrowSets(runtimeSystems)
    /\ initialized' = TRUE
    /\ loops' = loops + 1
    /\ FrameEffects(thr)
    /\ IF RenderOk(resources)
       THEN pc' = "done" /\ UNCHANGED initError
       ELSE pc' = "failed" /\ initError' = Err("frameFailed", None, None)
    /\ UNCHANGED <<resources, setupSystems, runtimeSystems, ri, si, completed,
                   inProgress, setupLog, initCalls, factoryLog, lastCall>>
    /\ UNCHANGED <<sceneVars, trigVars, fsmVars, bodyVars, ctrlVars, busVars, contactVars, moveVars,
                   reentryVars, harvestVars, cycleVars>>

\* animate(), called back by requestAnimationFrame: update(deltaTime)
Frame(thr) ==
    /\ initialized
    /\ loops > 0
    /\ initError.kind # "frameFailed"
    /\ frameNo < MaxFrames
    /\ thr \in ThrowSets(runtimeSystems)
    /\ FrameEffects(thr)
    /\ UNCHANGED <<engineVars, sceneVars, trigVars, fsmVars, bodyVars, ctrlVars, busVars, contactVars, moveVars,
                   reentryVars, harvestVars, cycleVars>>

\* update() without its check of this.initialized
updateNeverThrows(isInitialized) == FALSE

\* if (!this.initialized) throw new Error("GameSystems not initialized. Call init() first.")
updateThrows(isInitialized) == ~isInitialized

\* engine.update(deltaTime) called from outside the frame loop, at any moment
\* (also between two awaits of init())
UpdateCall(thr) ==
    /\ lastCall.n < MaxRegistryCalls
    /\ frameNo < MaxFrames
    /\ thr \in ThrowSets(runtimeSystems)
    /\ IF updateThrows(initialized)
       THEN /\ lastCall' = Call("update", None, NullInstance, TRUE)
            /\ UNCHANGED frameVars
       ELSE /\ lastCall' = Call("update", None, NullInstance, ~RenderOk(resources))
            /\ FrameEffects(thr)
    /\ UNCHANGED <<resources, setupSystems, runtimeSystems, initialized, pc, ri, si,
                   completed, inProgress, initError, setupLog, initCalls, loops,
                   factoryLog>>
    /\ UNCHANGED <<sceneVars, trigVars, fsmVars, bodyVars, ctrlVars, busVars, contactVars,
                   moveVars, reentryVars, harvestVars, cycleVars>>

\* no init() call is waiting behind the one that runs
NoActivation == [pc |-> "none", ri |-> 0, si |-> 0, completed |-> {}, inProgress |-> {},
                 initError |-> [kind |-> "none", name |-> "none", cause |-> "none"],
                 detached |-> FALSE]

\* if (this.initialized) throw new Error("GameSystems already initialized")
initRejects(isInitialized) == isInitialized

\* The running init() call's position, as kept while another call runs
Activation ==
    [pc |-> pc, ri |-> ri, si |-> si, completed |-> completed, inProgress |-> inProgress,
     initError |-> initError, detached |-> detached]

\* init(gameConfig) called while the first call waits at an await, up to its own
\* first await: _registerCoreSystems() replaces the registry entries of the core
\* resources (an awaited factory of one of them then settles into the replaced
\* entry object), pushes the core routines and systems again
InitReentrant ==
    /\ pc \in {"factory", "setup"}
    /\ suspended = NoActivation
    /\ initCalls < MaxInitCalls
    /\ initCalls' = initCalls + 1
    /\ IF initRejects(initialized)
       THEN /\ suspended' = Activation
            /\ detached' = FALSE
            /\ pc' = "failed"
            /\ initError' = Err("alreadyInitialized", None, None)
            /\ UNCHANGED <<resources, setupSystems, runtimeSystems, ri, si,
                           completed, inProgress, factoryLog>>
       ELSE LET res == CoreRegisteredResources(resources)
                nf == NextFactory(res, 0)
            IN /\ suspended' = [Activation EXCEPT !.detached =
                                    pc = "factory" /\ resources[ri].name \in Range(CoreResources)]
               /\ detached' = FALSE
               /\ resources' = res
               /\ setupSystems' = CoreRegisteredSetups(setupSystems)
               /\ runtimeSystems' = CoreRegisteredSystems(runtimeSystems)
               /\ initError' = NoError
               /\ completed' = {}
               /\ inProgress' = {}
               /\ ri' = nf
               /\ si' = 1
               /\ pc' = "factory"
               /\ factoryLog' = Append(factoryLog,
                                       [ev |-> "start", name |-> res[nf].name,
                                        call |-> initCalls + 1])
    /\ UNCHANGED <<initialized, setupLog, loops, lastCall>>
    /\ UNCHANGED <<frameVars, sceneVars, trigVars, fsmVars, bodyVars, ctrlVars, busVars,
                   contactVars, moveVars, harvestVars, cycleVars>>

\* the promise awaited by the waiting init() call settles before the one awaited
\* by the running call: the waiting call goes on, the other one waits
Resume ==
    /\ suspended # NoActivation
    /\ suspended.pc \in {"factory", "setup"}
    /\ pc \in {"factory", "setup", "done", "failed"}
    /\ suspended' = Activation
    /\ pc' = suspended.pc
    /\ ri' = suspended.ri
    /\ si' = suspended.si
    /\ completed' = suspended.completed
    /\ inProgress' = suspended.inProgress
    /\ initError' = suspended.initError
    /\ detached' = suspended.detached
    /\ UNCHANGED <<resources, setupSystems, runtimeSystems, initialized, setupLog,
                   initCalls, loops, factoryLog, lastCall>>
    /\ UNCHANGED <<frameVars, sceneVars, trigVars, fsmVars, bodyVars, ctrlVars, busVars,
                   contactVars, moveVars, harvestVars, cycleVars>>

\* resource.instance = await resource.factory(gameConfig) where 'resource' is an
\* entry object that registerResource has replaced in the Map meanwhile: the
\* instance is stored in the replaced object, the loop goes on over the Map
DetachedFactoryDone(out) ==
    /\ pc = "factory"
    /\ detached
    /\ detached' = FALSE
    /\ IF out # "throw"
       THEN LET nf == NextFactory(resources, ri)
                done == Append(factoryLog, FactoryEvent("end", resources[ri].name))
            IN /\ ri' = nf
               /\ pc' = IF nf = 0 THEN "setupNext" ELSE "factory"
               /\ factoryLog' = IF nf = 0 THEN done
                                ELSE Append(done, FactoryEvent("start", resources[nf].name))
               /\ UNCHANGED initError
       ELSE /\ pc' = "failed"
            /\ initError' = Err("factoryFailed", resources[ri].name, "factory error")
            /\ factoryLog' = Append(factoryLog, FactoryEvent("throw", resources[ri].name))
            /\ UNCHANGED ri
    /\ UNCHANGED <<resources, setupSystems, runtimeSystems, initialized, si, completed,
                   inProgress, setupLog, initCalls, loops, lastCall, suspended>>
    /\ UNCHANGED <<frameVars, sceneVars, trigVars, fsmVars, bodyVars, ctrlVars, busVars,
                   contactVars, moveVars, harvestVars, cycleVars>>

\* ------------------------------------------------ removeSugarcane
\* The store keeps the entities of the world and of each query in an array.
\* Removing an entity from an array: the last element takes its place.
BucketRemove(b, e) ==
    IF \A i \in 1..Len(b) : b[i] # e THEN b
    ELSE LET i == CHOOSE k \in 1..Len(b) : b[k] = e
             last == b[Len(b)]
         IN SubSeq([b EXCEPT ![i] = last], 1, Len(b) - 1)

\* world.removeComponent(entity, "isSugarcane"): out of the query's array only
removeComponent(st, e) == [st EXCEPT !.query = BucketRemove(@, e)]

\* world.remove(entity): out of the world's array and of the query's
worldRemove(st, e) ==
    [st EXCEPT !.store = BucketRemove(@, e), !.query = BucketRemove(@, e)]

\* for (const entity of sugarcaneQuery): the array position read by the n-th
\* step of the iterator, for an array that had len elements when the loop
\* started: the iterator walks from the last element down to the first
IteratorPosition(len, n) == len - n + 1

\* for (const entity of sugarcaneQuery) world.remove(entity), from the n-th step on
RECURSIVE SugarcaneLoop(_, _, _)
SugarcaneLoop(st, len, n) ==
    LET i == IteratorPosition(len, n)
    IN IF i \notin 1..Len(st.query) THEN st
       ELSE SugarcaneLoop([worldRemove(st, st.query[i]) EXCEPT
                               !.visited = Append(@, st.query[i])],
                          len, n + 1)

\* removeSugarcane(world)
removeSugarcane(st) == SugarcaneLoop(st, Len(st.query), 1)

\* placeObject: world.add(entityData), with isSugarcane for a sugarcane plot
PlaceObject(sugarcane) ==
    /\ Len(placed) < MaxPlaced
    /\ placed' = Append(placed, sugarcane)
    /\ storeEntities' = Append(storeEntities, Len(placed) + 1)
    /\ sugarcaneQuery' = IF sugarcane THEN Append(sugarcaneQuery, Len(placed) + 1)
                         ELSE sugarcaneQuery
    /\ UNCHANGED <<harvestVisited, harvests>>
    /\ UNCHANGED <<engineVars, frameVars, sceneVars, trigVars, fsmVars, bodyVars, ctrlVars,
                   busVars, contactVars, moveVars, reentryVars, cycleVars>>

\* world.remove(entity) made elsewhere (a collected item, a single plant)
RemoveObject(e) ==
    /\ \E i \in 1..Len(storeEntities) : storeEntities[i] = e
    /\ LET st == worldRemove([store |-> storeEntities, query |-> sugarcaneQuery,
                              visited |-> <<>>], e)
       IN /\ storeEntities' = st.store
          /\ sugarcaneQuery' = st.query
    /\ UNCHANGED <<placed, harvestVisited, harvests>>
    /\ UNCHANGED <<engineVars, frameVars, sceneVars, trigVars, fsmVars, bodyVars, ctrlVars,
                   busVars, contactVars, moveVars, reentryVars, cycleVars>>

\* runHarvest: removeSugarcane(window.gameEngine.world)
Harvest ==
    /\ harvests < MaxHarvests
    /\ LET st == removeSugarcane([store |-> storeEntities, query |-> sugarcaneQuery,
                                  visited |-> <<>>])
       IN /\ storeEntities' = st.store
          /\ sugarcaneQuery' = st.query
          /\ harvestVisited' = st.visited
    /\ harvests' = harvests + 1
    /\ UNCHANGED placed
    /\ UNCHANGED <<engineVars, frameVars, sceneVars, trigVars, fsmVars, bodyVars, ctrlVars,
                   busVars, contactVars, moveVars, reentryVars, cycleVars>>

\* ------------------------------------------------ game cycle
\* The store's fields the cycle reads and writes
GameState == [phase |-> gamePhase, year |-> currentYear, history |-> performanceHistory,
              timers |-> startTimers]

\* lastThreeYears.every(yearStats => yearStats.ndvi > 0.7 && yearStats.lst < 34)
allMetConditions(history) ==
    /\ Len(history) >= 3
    /\ \A k \in (Len(history) - 2)..Len(history) : history[k]

\* checkForWinCondition(); met: whether this year's averages meet the thresholds
checkForWinCondition(st, met) ==
    LET history == Append(st.history, met)
    IN IF allMetConditions(history)
       THEN [st EXCEPT !.phase = "WIN"]
       ELSE [st EXCEPT !.history = history]

\* proceedToNextYear(): the win check, then the year advance with
\* setTimeout(startNewYear, 2000), or GAME_OVER after the last year
proceedToNextYear(st, met) ==
    LET checked == checkForWinCondition(st, met)
    IN IF st.year < LastYear
       THEN [checked EXCEPT !.year = st.year + 1, !.timers = @ + 1]
       ELSE IF checked.phase # "WIN"
       THEN [checked EXCEPT !.phase = "GAME_OVER"]
       ELSE checked

\* startNewYear(): yearlyLotData has an entry for every year of the cycle
startNewYear(st) ==
    IF st.year \notin FirstYear..LastYear THEN st
    ELSE [st EXCEPT !.phase = "PRE_SEASON"]

\* the win screen's store subscription: shown when the phase becomes WIN
WinScreenAfter(shown, before, after) == shown \/ (after = "WIN" /\ before # "WIN")

\* the cycle UI's store subscription: on a phase change the main action button
\* is displayed for the phases that have an action and hidden for the others
ActionButtonAfter(shown, before, after) ==
    IF after # before THEN after \in {"PRE_SEASON", "GROWING", "POST_HARVEST"} ELSE shown

\* the store takes the state st; shown: whether the button was displayed before
SetGameState(st, shown) ==
    /\ gamePhase' = st.phase
    /\ currentYear' = st.year
    /\ performanceHistory' = st.history
    /\ startTimers' = st.timers
    /\ winScreen' = WinScreenAfter(winScreen, gamePhase, st.phase)
    /\ actionButton' = ActionButtonAfter(shown, gamePhase, st.phase)

\* the intro screen's start button: setTimeout(() => startNewYear(), 500)
StartGameClick ==
    /\ gamePhase = "IDLE"
    /\ startTimers = 0
    /\ restarts = 0
    /\ startTimers' = startTimers + 1
    /\ UNCHANGED <<gamePhase, currentYear, performanceHistory, winScreen, actionButton,
                   restarts>>
    /\ UNCHANGED <<engineVars, frameVars, sceneVars, trigVars, fsmVars, bodyVars, ctrlVars,
                   busVars, contactVars, moveVars, reentryVars, harvestVars>>

\* a pending timer fires: startNewYear()
StartNewYearTimer ==
    /\ startTimers > 0
    /\ SetGameState([startNewYear(GameState) EXCEPT !.timers = @ - 1], actionButton)
    /\ UNCHANGED restarts
    /\ UNCHANGED <<engineVars, frameVars, sceneVars, trigVars, fsmVars, bodyVars, ctrlVars,
                   busVars, contactVars, moveVars, reentryVars, harvestVars>>

\* the main action button: hideAllModals(), then startGrowingSeason, runHarvest
\* or proceedToNextYear, by the phase
MainActionClick(met) ==
    /\ actionButton
    /\ SetGameState(IF gamePhase = "PRE_SEASON" THEN [GameState EXCEPT !.phase = "GROWING"]
                    ELSE IF gamePhase = "GROWING"
                    THEN [GameState EXCEPT !.phase = "POST_HARVEST"]
                    ELSE IF gamePhase = "POST_HARVEST"
                    THEN proceedToNextYear(GameState, met)
                    ELSE GameState,
                    FALSE)
    /\ UNCHANGED restarts
    /\ UNCHANGED <<engineVars, frameVars, sceneVars, trigVars, fsmVars, bodyVars, ctrlVars,
                   busVars, contactVars, moveVars, reentryVars, harvestVars>>

\* the restart button of the win screen or of the end screen: restartGame(), then
\* setTimeout(() => startNewYear(), 100)
RestartClick ==
    /\ winScreen \/ gamePhase = "GAME_OVER"
    /\ restarts < MaxRestarts
    /\ restarts' = restarts + 1
    /\ gamePhase' = "IDLE"
    /\ currentYear' = FirstYear
    /\ performanceHistory' = <<>>
    /\ startTimers' = startTimers + 1
    /\ winScreen' = FALSE
    /\ actionButton' = FALSE
    /\ UNCHANGED <<engineVars, frameVars, sceneVars, trigVars, fsmVars, bodyVars, ctrlVars,
                   busVars, contactVars, moveVars, reentryVars, harvestVars>>

\* ------------------------------------------------ sceneManagementSystem
\* A mesh factory returns a mesh, returns undefined ("not ready") or throws.
Undefined == "undefined"
FactoryOutcomes == {"mesh", Undefined, "throw"}

\* The mesh object the factory builds for entity e on its n-th invocation.
MeshOf(e, n) == [ent |-> e, n |-> n]
\* renderable.mesh absent, and renderable.mesh / a tracked key holding undefined
NoMesh == [ent |-> 0, n |-> 0]
UndefinedMesh == [ent |-> 0, n |-> 1]
NoBody == 0

\* world.add({ renderable: createGLTFRenderable(...) / createRenderableMetadata(...) }):
\* needsMesh: true, no mesh; hasFactory: whether a mesh factory is registered for
\* one of its component names or for renderable.type
NewEntity(f) == [needsMesh |-> TRUE, mesh |-> NoMesh, body |-> NoBody, hasFactory |-> f]

NoCalls == [factory |-> <<>>, sceneAdd |-> <<>>, sceneRemove |-> <<>>,
            removeCollider |-> <<>>, removeRigidBody |-> <<>>]

Count(f, k) == IF k \in DOMAIN f THEN f[k] ELSE 0
Bump(f, k) == [x \in DOMAIN f \cup {k} |-> IF x = k THEN Count(f, k) + 1 ELSE f[x]]

\* The side tables: insertion-ordered Maps, as sequences of [key, entity].
TrackedKeys(t) == {t[i].key : i \in 1..Len(t)}
TrackedSet(t, k, e) ==
    IF k \in TrackedKeys(t)
    THEN [i \in 1..Len(t) |-> IF t[i].key = k THEN [key |-> k, entity |-> e] ELSE t[i]]
    ELSE Append(t, [key |-> k, entity |-> e])

\* The state a pass works on.
SceneState == [ents |-> ents, meshes |-> trackedMeshes, bodies |-> trackedPhysicsBodies,
               scene |-> scene, calls |-> calls, outcome |-> lastOutcome, threw |-> FALSE]

\* handleMeshCreation, first loop, one entity, with its try/catch/finally dropped:
\* a factory result of undefined leaves needsMesh set and records nothing, a throw
\* clears the flag
MeshCreationRetrying(st, e, out) ==
    LET ent == st.ents[e]
    IN IF ~ent.needsMesh \/ ent.mesh \notin {NoMesh, UndefinedMesh} THEN st
       ELSE IF ~ent.hasFactory
       THEN [st EXCEPT !.ents[e].needsMesh = FALSE]
       ELSE LET n == Count(st.calls.factory, e) + 1
                m == MeshOf(e, n)
                called == [st EXCEPT !.calls.factory = Bump(@, e),
                                     !.outcome = [x \in DOMAIN @ \cup {e} |->
                                                     IF x = e THEN out ELSE @[x]]]
            IN CASE out = "mesh" ->
                      [called EXCEPT !.ents[e].mesh = m,
                                     !.ents[e].needsMesh = FALSE,
                                     !.scene = @ \cup {m},
                                     !.calls.sceneAdd = Bump(@, m),
                                     !.meshes = TrackedSet(@, m, e)]
                 [] out = Undefined -> called
                 [] OTHER -> [called EXCEPT !.ents[e].needsMesh = FALSE]

\* the catch block without the finally block: the flag stays set after a throw
CaughtNoFinally(called, e) == called

\* catch (error) { console.error(...) } finally { entity.renderable.needsMesh = false }
Caught(called, e) == [called EXCEPT !.ents[e].needsMesh = FALSE]

\* handleMeshCreation, first loop, one entity: skip unless renderable.needsMesh and
\* no renderable.mesh; find the factory; try { mesh = factory(entity); renderable.mesh
\* = mesh; scene.add(mesh); trackedMeshes.set(mesh, entity) } catch { log }
\* finally { needsMesh = false }.  scene.add(undefined) adds nothing and does not
\* throw (three.js logs an error).
MeshCreation(st, e, out) ==
    LET ent == st.ents[e]
    IN IF ~ent.needsMesh \/ ent.mesh \notin {NoMesh, UndefinedMesh} THEN st
       ELSE IF ~ent.hasFactory
       THEN [st EXCEPT !.ents[e].needsMesh = FALSE]
       ELSE LET n == Count(st.calls.factory, e) + 1
                m == MeshOf(e, n)
                called == [st EXCEPT !.calls.factory = Bump(@, e),
                                     !.outcome = [x \in DOMAIN @ \cup {e} |->
                                                     IF x = e THEN out ELSE @[x]]]
            IN CASE out = "mesh" ->
                      [called EXCEPT !.ents[e].mesh = m,
                                     !.ents[e].needsMesh = FALSE,
                                     !.scene = @ \cup {m},
                                     !.calls.sceneAdd = Bump(@, m),
                                     !.meshes = TrackedSet(@, m, e)]
                 [] out = Undefined ->
                      [called EXCEPT !.ents[e].mesh = UndefinedMesh,
                                     !.ents[e].needsMesh = FALSE,
                                     !.calls.sceneAdd = Bump(@, UndefinedMesh),
                                     !.meshes = TrackedSet(@, UndefinedMesh, e)]
                 [] OTHER -> Caught(called, e)

RECURSIVE MeshCreationLoop(_, _, _)
MeshCreationLoop(st, order, outs) ==
    IF order = <<>> THEN st
    ELSE MeshCreationLoop(MeshCreation(st, Head(order), outs[Head(order)]),
                          Tail(order), outs)

\* handleMeshCreation, second loop: track the physicsBody of every entity in the store
RECURSIVE TrackBodies(_, _)
TrackBodies(st, order) ==
    IF order = <<>> THEN st
    ELSE LET e == Head(order)
             b == st.ents[e].body
         IN TrackBodies(IF b # NoBody /\ b \notin TrackedKeys(st.bodies)
                        THEN [st EXCEPT !.bodies = TrackedSet(@, b, e)]
                        ELSE st,
                        Tail(order))

\* handleMeshCreation(world, renderer, assets)
handleMeshCreation(st, order, outs) == TrackBodies(MeshCreationLoop(st, order, outs), order)

\* handleResourceCleanup, first loop from entry i on: for a tracked mesh whose entity
\* left the store: scene.remove(mesh); mesh.geometry / mesh.material disposal, which
\* throws a TypeError when the tracked key is undefined; trackedMeshes.delete(mesh)
RECURSIVE CleanupMeshes(_, _, _, _)
CleanupMeshes(st, todo, kept, current) ==
    IF todo = <<>> THEN [st EXCEPT !.meshes = kept]
    ELSE LET t == Head(todo)
         IN IF t.entity \in current
            THEN CleanupMeshes(st, Tail(todo), Append(kept, t), current)
            ELSE LET removed == [st EXCEPT !.scene = @ \ {t.key},
                                           !.calls.sceneRemove = Bump(@, t.key)]
                 IN IF t.key = UndefinedMesh
                    THEN [removed EXCEPT !.meshes = kept \o todo, !.threw = TRUE]
                    ELSE CleanupMeshes(removed, Tail(todo), kept, current)

\* handleResourceCleanup, second loop: physics.world.removeCollider(body.collider),
\* physics.world.removeRigidBody(body.rigidBody), trackedPhysicsBodies.delete(body)
RECURSIVE CleanupBodies(_, _, _, _)
CleanupBodies(st, todo, kept, current) ==
    IF todo = <<>> THEN [st EXCEPT !.bodies = kept]
    ELSE LET t == Head(todo)
         IN IF t.entity \in current
            THEN CleanupBodies(st, Tail(todo), Append(kept, t), current)
            ELSE CleanupBodies([st EXCEPT !.calls.removeCollider = Bump(@, t.key),
                                          !.calls.removeRigidBody = Bump(@, t.key)],
                               Tail(todo), kept, current)

\* handleResourceCleanup(world, renderer, physics)
handleResourceCleanup(st, current) ==
    LET m == CleanupMeshes(st, st.meshes, <<>>, current)
    IN IF m.threw THEN m ELSE CleanupBodies(m, m.bodies, <<>>, current)

\* sceneManagementSystem(world, { renderer, assets, physics })
sceneManagementSystem(st, order, outs) ==
    handleResourceCleanup(handleMeshCreation(st, order, outs), Range(order))

\* world.add(entity): a fresh entity object
AddEntity(f) ==
    /\ Len(ents) < MaxEntities
    /\ ents' = Append(ents, NewEntity(f))
    /\ world' = Append(world, Len(ents) + 1)
    /\ UNCHANGED <<trackedMeshes, trackedPhysicsBodies, scene, calls, passNo, passFailed,
                   removedAt, lastOutcome>>
    /\ UNCHANGED <<engineVars, frameVars, trigVars, fsmVars, bodyVars, ctrlVars, busVars, contactVars, moveVars,
                   reentryVars, harvestVars, cycleVars>>

\* world.remove(entity)
RemoveEntity(e) ==
    /\ e \in Range(world)
    /\ world' = SelectSeq(world, LAMBDA x : x # e)
    /\ removedAt' = [x \in DOMAIN removedAt \cup {e} |->
                        IF x = e
                        THEN [pass |-> passNo,
                              mesh |-> IF \E i \in 1..Len(trackedMeshes) :
                                            /\ trackedMeshes[i].entity = e
                                            /\ trackedMeshes[i].key = ents[e].mesh
                                            /\ ents[e].mesh # UndefinedMesh
                                       THEN ents[e].mesh ELSE NoMesh,
                              body |-> IF ents[e].body \in TrackedKeys(trackedPhysicsBodies)
                                       THEN ents[e].body ELSE NoBody]
                        ELSE removedAt[x]]
    /\ UNCHANGED <<ents, trackedMeshes, trackedPhysicsBodies, scene, calls, passNo,
                   passFailed, lastOutcome>>
    /\ UNCHANGED <<engineVars, frameVars, trigVars, fsmVars, bodyVars, ctrlVars, busVars, contactVars, moveVars,
                   reentryVars, harvestVars, cycleVars>>

\* physicsBodySetupSystem / the retry sweep: world.addComponent(entity, "physicsBody", body)
AttachBody(e) ==
    /\ e \in Range(world)
    /\ ents[e].body = NoBody
    /\ ents' = [ents EXCEPT ![e].body = e]
    /\ UNCHANGED <<world, trackedMeshes, trackedPhysicsBodies, scene, calls, passNo,
                   passFailed, removedAt, lastOutcome>>
    /\ UNCHANGED <<engineVars, frameVars, trigVars, fsmVars, bodyVars, ctrlVars, busVars, contactVars, moveVars,
                   reentryVars, harvestVars, cycleVars>>

\* One frame's sceneManagement pass; outs: what each entity's mesh factory does if invoked
ScenePass(outs) ==
    /\ passNo < MaxPasses
    /\ LET st == sceneManagementSystem(SceneState, world, outs)
       IN /\ ents' = st.ents
          /\ trackedMeshes' = st.meshes
          /\ trackedPhysicsBodies' = st.bodies
          /\ scene' = st.scene
          /\ calls' = st.calls
          /\ lastOutcome' = st.outcome
          /\ passFailed' = st.threw
    /\ passNo' = passNo + 1
    /\ UNCHANGED <<world, removedAt>>
    /\ UNCHANGED <<engineVars, frameVars, trigVars, fsmVars, bodyVars, ctrlVars, busVars, contactVars, moveVars,
                   reentryVars, harvestVars, cycleVars>>

\* ----------------------------------------------- triggerDetectionSystem
\* Positions lie on one axis and are counted in tenths, so that the distance
\* Math.sqrt(dx * dx + dy * dy + dz * dz) is |dx|.
Positions == {0, 14, 15, 16}
Abs(x) == IF x < 0 THEN -x ELSE x
Distance(p, q) == Abs(p - q)

\* entity.id of an entity that has no 'id' component: undefined
NoId == 0

\* createTriggerDetector(radius) with radius 0.5 and with radius 0;
\* createTriggerZone("collectible", GAME_CONFIG.COLLECTIBLES.TRIGGER_RADIUS): 1.0
DetectorRadii == {0, 5}
ZoneRadius == 10

\* radius || 1
RadiusOrDefault(r) == IF r = 0 THEN 10 ELSE r

\* const isInside = distance < combinedRadius
IsInside(det, zone) ==
    Distance(det.pos, zone.pos) < RadiusOrDefault(det.radius) + RadiusOrDefault(zone.radius)

TrigEvent(ev, det, zone) == [ev |-> ev, d |-> det.key, z |-> zone.key]

\* triggerDetectionSystem with currentlyInside keyed by the detector object itself
\* instead of by triggerable.id
PairStepByIdentity(zs, out, det, j) ==
    LET zone == zs[j]
        isInside == IsInside(det, zone)
        wasInside == det.key \in zone.currentlyInside
    IN IF isInside /\ ~wasInside
       THEN [zones |-> [zs EXCEPT ![j].currentlyInside = @ \cup {det.key}],
             out |-> Append(out, TrigEvent("entered", det, zone))]
       ELSE IF ~isInside /\ wasInside
       THEN [zones |-> [zs EXCEPT ![j].currentlyInside = @ \ {det.key}],
             out |-> Append(out, TrigEvent("exited", det, zone))]
       ELSE [zones |-> zs, out |-> out]

\* The body of the inner loop: one detector against one zone.
\* wasInside = currentlyInside.has(triggerable.id); add/delete triggerable.id; emit
PairStep(zs, out, det, j) ==
    LET zone == zs[j]
        isInside == IsInside(det, zone)
        wasInside == det.id \in zone.currentlyInside
    IN IF isInside /\ ~wasInside
       THEN [zones |-> [zs EXCEPT ![j].currentlyInside = @ \cup {det.id}],
             out |-> Append(out, TrigEvent("entered", det, zone))]
       ELSE IF ~isInside /\ wasInside
       THEN [zones |-> [zs EXCEPT ![j].currentlyInside = @ \ {det.id}],
             out |-> Append(out, TrigEvent("exited", det, zone))]
       ELSE [zones |-> zs, out |-> out]

RECURSIVE ZoneLoop(_, _, _, _)
ZoneLoop(zs, out, det, j) ==
    IF j > Len(zs) THEN [zones |-> zs, out |-> out]
    ELSE LET r == PairStep(zs, out, det, j)
         IN ZoneLoop(r.zones, r.out, det, j + 1)

RECURSIVE DetectorLoop(_, _, _, _)
DetectorLoop(ds, zs, out, i) ==
    IF i > Len(ds) THEN [zones |-> zs, out |-> out]
    ELSE IF ~ds[i].inStore THEN DetectorLoop(ds, zs, out, i + 1)
    ELSE LET r == ZoneLoop(zs, out, ds[i], 1)
         IN DetectorLoop(ds, r.zones, r.out, i + 1)

\* triggerDetectionSystem(world, eventBus); world.with("transform",
\* "triggerDetector") holds the detectors that are in the store
triggerDetectionSystem(ds, zs) == DetectorLoop(ds, zs, <<>>, 1)

\* The pairs of detector and zone in the store that overlap
Overlapping(ds, zs) ==
    {<<ds[q[1]].key, zs[q[2]].key>> :
        q \in {x \in (1..Len(ds)) \X (1..Len(zs)) :
                  ds[x[1]].inStore /\ IsInside(ds[x[1]], zs[x[2]])}}

RECURSIVE FoldEvents(_, _, _)
FoldEvents(evs, last, dbl) ==
    IF evs = <<>> THEN [last |-> last, dbl |-> dbl]
    ELSE LET e == Head(evs)
             p == <<e.d, e.z>>
             was == IF p \in DOMAIN last THEN last[p] ELSE None
         IN FoldEvents(Tail(evs),
                       [x \in DOMAIN last \cup {p} |-> IF x = p THEN e.ev ELSE last[x]],
                       IF e.ev = "entered" /\ was = "entered" THEN dbl \cup {p} ELSE dbl)

\* world.add({ transform, triggerDetector, [id] })
AddDetector(hasId, r, p) ==
    /\ Len(detectors) < MaxDetectors
    /\ detectors' = Append(detectors,
           [key |-> Len(detectors) + 1,
            id |-> IF hasId THEN Len(detectors) + 1 ELSE NoId,
            radius |-> r, pos |-> p, inStore |-> TRUE])
    /\ UNCHANGED <<zones, overlap, prevOverlap, emitted, lastEvent, doubleEnter, trigPasses>>
    /\ UNCHANGED <<engineVars, frameVars, sceneVars, fsmVars, bodyVars, ctrlVars, busVars, contactVars, moveVars,
                   reentryVars, harvestVars, cycleVars>>

\* world.add({ transform, triggerZone: createTriggerZone(type, radius) })
AddZone(p) ==
    /\ Len(zones) < MaxZones
    /\ \A j \in 1..Len(zones) : zones[j].pos # p
    /\ zones' = Append(zones, [key |-> Len(zones) + 1, radius |-> ZoneRadius, pos |-> p,
                               currentlyInside |-> {}])
    /\ UNCHANGED <<detectors, overlap, prevOverlap, emitted, lastEvent, doubleEnter, trigPasses>>
    /\ UNCHANGED <<engineVars, frameVars, sceneVars, fsmVars, bodyVars, ctrlVars, busVars, contactVars, moveVars,
                   reentryVars, harvestVars, cycleVars>>

\* physicsStateSync / movement: the detector's transform.position changes
MoveDetector(i, p) ==
    /\ i \in 1..Len(detectors)
    /\ detectors[i].inStore
    /\ detectors[i].pos # p
    /\ detectors' = [detectors EXCEPT ![i].pos = p]
    /\ UNCHANGED <<zones, overlap, prevOverlap, emitted, lastEvent, doubleEnter, trigPasses>>
    /\ UNCHANGED <<engineVars, frameVars, sceneVars, fsmVars, bodyVars, ctrlVars, busVars, contactVars, moveVars,
                   reentryVars, harvestVars, cycleVars>>

\* world.remove(entity): the detector leaves the store; the zones are not touched
RemoveDetector(i) ==
    /\ i \in 1..Len(detectors)
    /\ detectors[i].inStore
    /\ detectors' = [detectors EXCEPT ![i].inStore = FALSE]
    /\ UNCHANGED <<zones, overlap, prevOverlap, emitted, lastEvent, doubleEnter, trigPasses>>
    /\ UNCHANGED <<engineVars, frameVars, sceneVars, fsmVars, bodyVars, ctrlVars, busVars, contactVars, moveVars,
                   reentryVars, harvestVars, cycleVars>>

\* One frame's triggerDetection pass
TriggerPass ==
    /\ trigPasses < MaxTrigPasses
    /\ LET r == triggerDetectionSystem(detectors, zones)
           f == FoldEvents(r.out, lastEvent, doubleEnter)
       IN /\ zones' = r.zones
          /\ emitted' = r.out
          /\ lastEvent' = f.last
          /\ doubleEnter' = f.dbl
    /\ prevOverlap' = overlap
    /\ overlap' = Overlapping(detectors, zones)
    /\ trigPasses' = trigPasses + 1
    /\ UNCHANGED detectors
    /\ UNCHANGED <<engineVars, frameVars, sceneVars, fsmVars, bodyVars, ctrlVars, busVars, contactVars, moveVars,
                   reentryVars, harvestVars, cycleVars>>

\* ------------------------------------------------------- animationSystem
\* Speeds are counted in tenths: 4.0 is 40 and 0.5 is 5.
Speeds == {0, 3, 5, 30, 40, 45, 50}

\* { to, when: { property, is, than } }
Rule(to, property, is, than) ==
    [to |-> to, when |-> [property |-> property, is |-> is, than |-> than]]

StateNode(animation, transitions) == [animation |-> animation, transitions |-> transitions]

\* A machine with A -> B when speed > 4 and B -> A when speed < 4
ABMachine ==
    [name |-> "ab", initial |-> "A",
     states |-> [A |-> StateNode("animA", <<Rule("B", "speed", ">", 40)>>),
                 B |-> StateNode("animB", <<Rule("A", "speed", "<", 40)>>)]]

playerStateMachineDefinition ==
    [name |-> "player", initial |-> "idle",
     states |->
       [idle |-> StateNode("CharacterArmature|Idle",
                    <<Rule("airborne", "grounded", "===", FALSE),
                      Rule("run", "speed", ">", 40),
                      Rule("walk", "speed", ">", 5)>>),
        walk |-> StateNode("CharacterArmature|Walk",
                    <<Rule("airborne", "grounded", "===", FALSE),
                      Rule("run", "speed", ">", 40),
                      Rule("idle", "speed", "<", 5)>>),
        run |-> StateNode("CharacterArmature|Run",
                    <<Rule("airborne", "grounded", "===", FALSE),
                      Rule("walk", "speed", "<", 40)>>),
        airborne |-> StateNode("CharacterArmature|Idle",
                    <<Rule("idle", "grounded", "===", TRUE)>>)]]

\* the definition of an entity that is not part of the scenario
NoMachine ==
    [name |-> None, initial |-> None, states |-> [none |-> StateNode(None, <<>>)]]

Machines == {ABMachine, playerStateMachineDefinition}

\* A -> B when speed > 4 and B -> C when speed > 4: both rules hold at speed 5
ChainMachine ==
    [name |-> "chain", initial |-> "A",
     states |-> [A |-> StateNode("animA", <<Rule("B", "speed", ">", 40)>>),
                 B |-> StateNode("animB", <<Rule("C", "speed", ">", 40)>>),
                 C |-> StateNode("animC", <<>>)]]

\* a definition without 'initial'
NoInitialMachine ==
    [name |-> "noInitial", initial |-> None,
     states |-> [A |-> StateNode("animA", <<>>)]]

\* a definition whose 'initial' is not a key of 'states'
UnknownInitialMachine ==
    [name |-> "unknownInitial", initial |-> "C",
     states |-> [A |-> StateNode("animA", <<Rule("B", "speed", ">", 40)>>),
                 B |-> StateNode("animB", <<>>)]]

\* a definition with a rule whose 'to' is not a key of 'states'
DanglingMachine ==
    [name |-> "dangling", initial |-> "A",
     states |-> [A |-> StateNode("animA", <<Rule("ghost", "speed", ">", 40)>>)]]

\* The definitions a game can hand to createStateMachine
Definitions == Machines \cup {ChainMachine, NoInitialMachine, UnknownInitialMachine,
                              DanglingMachine}

\* the check of 'initial' alone: !definition.initial
createStateMachineThrowsNoInitial(definition) == definition.initial = None

\* if (!definition.initial || !definition.states[definition.initial]) throw
createStateMachineThrows(definition) ==
    definition.initial = None \/ definition.initial \notin DOMAIN definition.states

\* { ...definition, currentState: definition.initial, stateTime: 0 }
createStateMachine(definition) ==
    [definition |-> definition, currentState |-> definition.initial, stateTime |-> 0]

\* no createStateMachine call made yet
NoCreation == [definition |-> NoMachine, made |-> FALSE, threw |-> FALSE,
               withMovement |-> FALSE]

\* createMovementState(): speed 0, grounded false
createMovementState == [speed |-> 0, grounded |-> FALSE]

\* createAnimationMixer(mixer, animations): no current animation, mixer time 0
createAnimationMixer == [currentAnimation |-> None, time |-> 0]

NoTrace == [from |-> None, speed |-> 0, grounded |-> FALSE]

\* evaluators with ">" and "<" made non-strict
evaluatorsNonStrict(is, a, b) ==
    CASE is = ">" -> a >= b
      [] is = "<" -> a <= b
      [] is = "===" -> a = b
      [] is = "!==" -> a # b
      [] OTHER -> FALSE

\* evaluators[is]?.(a, b) ?? false
evaluators(is, a, b) ==
    CASE is = ">" -> a > b
      [] is = "<" -> a < b
      [] is = "===" -> a = b
      [] is = "!==" -> a # b
      [] OTHER -> FALSE

\* evaluateCondition(entity, condition), sourceComponent = entity.movementState
evaluateCondition(sourceComponent, condition) ==
    IF condition.property \notin DOMAIN sourceComponent
    THEN FALSE
    ELSE evaluators(condition.is, sourceComponent[condition.property], condition.than)

\* the for loop over the transitions without its break: the last satisfied rule wins
RECURSIVE TransitionLoopNoBreak(_, _, _, _)
TransitionLoopNoBreak(sm, ms, transitions, k) ==
    IF k > Len(transitions) THEN sm
    ELSE TransitionLoopNoBreak(
             IF evaluateCondition(ms, transitions[k].when)
             THEN [sm EXCEPT !.currentState = transitions[k].to, !.stateTime = 0]
             ELSE sm,
             ms, transitions, k + 1)

\* for (const transition of currentStateNode.transitions) { if (...) { ...; break } }
RECURSIVE TransitionLoop(_, _, _, _)
TransitionLoop(sm, ms, transitions, k) ==
    IF k > Len(transitions) THEN sm
    ELSE IF evaluateCondition(ms, transitions[k].when)
    THEN [sm EXCEPT !.currentState = transitions[k].to, !.stateTime = 0]
    ELSE TransitionLoop(sm, ms, transitions, k + 1)

\* transitionToAnimation(animationMixer, targetAnimationName); every animation
\* named by a definition has an action in the mixer
transitionToAnimation(mixer, targetAnimationName) ==
    IF mixer.currentAnimation = targetAnimationName THEN mixer
    ELSE [mixer EXCEPT !.currentAnimation = targetAnimationName]

\* The body of animationSystem's loop for one entity, deltaTime being one tick
animationSystem(sm, ms, mixer) ==
    IF sm.currentState \notin DOMAIN sm.definition.states
    THEN [sm |-> sm, mixer |-> mixer]
    ELSE LET node == sm.definition.states[sm.currentState]
             sm1 == TransitionLoop([sm EXCEPT !.stateTime = @ + 1], ms, node.transitions, 1)
             m1 == IF sm1.currentState \in DOMAIN sm1.definition.states
                   THEN LET newNode == sm1.definition.states[sm1.currentState]
                        IN IF newNode.animation # None
                           THEN transitionToAnimation(mixer, newNode.animation)
                           ELSE mixer
                   ELSE mixer
         IN [sm |-> sm1, mixer |-> [m1 EXCEPT !.time = @ + 1]]

\* The systems that write movementState between two evaluations: the movement
\* input sets speed, physicsStateSync sets grounded
SetMovement(s, g) ==
    /\ evals < MaxEvals
    /\ smCreation.made /\ ~smCreation.threw /\ smCreation.withMovement
    /\ movementState # [speed |-> s, grounded |-> g]
    /\ movementState' = [speed |-> s, grounded |-> g]
    /\ UNCHANGED <<stateMachine, animationMixer, fsmTrace, evals, smCreation>>
    /\ UNCHANGED <<engineVars, frameVars, sceneVars, trigVars, bodyVars, ctrlVars, busVars, contactVars, moveVars,
                   reentryVars, harvestVars, cycleVars>>

\* world.add({ stateMachine: createStateMachine(definition), animationMixer,
\* [movementState] }): when createStateMachine throws, no entity is added
CreateMachine(definition, withMovement) ==
    /\ ~smCreation.made
    /\ smCreation' = [definition |-> definition, made |-> TRUE,
                      threw |-> createStateMachineThrows(definition),
                      withMovement |-> withMovement]
    /\ stateMachine' = IF createStateMachineThrows(definition)
                       THEN stateMachine
                       ELSE createStateMachine(definition)
    /\ UNCHANGED <<movementState, animationMixer, fsmTrace, evals>>
    /\ UNCHANGED <<engineVars, frameVars, sceneVars, trigVars, bodyVars, ctrlVars, busVars, contactVars, moveVars,
                   reentryVars, harvestVars, cycleVars>>

\* world.with("animationMixer", "stateMachine", "movementState") holds the entity
InAnimationQuery == smCreation.withMovement

\* One frame's animationSystem pass
Evaluate ==
    /\ evals < MaxEvals
    /\ smCreation.made /\ ~smCreation.threw
    /\ LET r == IF InAnimationQuery
                THEN animationSystem(stateMachine, movementState, animationMixer)
                ELSE [sm |-> stateMachine, mixer |-> animationMixer]
       IN /\ stateMachine' = r.sm
          /\ animationMixer' = r.mixer
    /\ fsmTrace' = [from |-> stateMachine.currentState,
                    speed |-> movementState.speed,
                    grounded |-> movementState.grounded]
    /\ evals' = evals + 1
    /\ UNCHANGED <<movementState, smCreation>>
    /\ UNCHANGED <<engineVars, frameVars, sceneVars, trigVars, bodyVars, ctrlVars, busVars, contactVars, moveVars,
                   reentryVars, harvestVars, cycleVars>>

\* ------------------------------------------------ GameSystems.on/off/emit
EventNames == {"outer", "inner"}

\* no callback
NoListener == 0

\* The callbacks of the scenario and what each does when it is invoked:
\* 1 returns, 2 calls off(eventName, 1), 3 calls on(eventName, 1), 4 throws,
\* 5 calls emit("inner")
Listeners == 1..5
ListenerBody ==
    << [kind |-> "return", target |-> NoListener],
       [kind |-> "off", target |-> 1],
       [kind |-> "on", target |-> 1],
       [kind |-> "throw", target |-> NoListener],
       [kind |-> "emit", target |-> NoListener] >>

\* this.eventListeners.get(eventName).push(callback)
on(ls, eventName, callback) == [ls EXCEPT ![eventName] = Append(@, callback)]

\* listeners.indexOf(callback)
IndexOf(listeners, callback) ==
    IF \E i \in 1..Len(listeners) : listeners[i] = callback
    THEN CHOOSE i \in 1..Len(listeners) :
             listeners[i] = callback /\ \A j \in 1..(i - 1) : listeners[j] # callback
    ELSE 0

\* if (index > -1) listeners.splice(index, 1)
off(ls, eventName, callback) ==
    LET listeners == ls[eventName]
        index == IndexOf(listeners, callback)
    IN IF index = 0 THEN ls
       ELSE [ls EXCEPT ![eventName] =
                [k \in 1..(Len(listeners) - 1) |->
                    IF k < index THEN listeners[k] ELSE listeners[k + 1]]]

\* the loop reading the live array instead of the copy
ListenerAtLive(snapshot, live, i) == IF i <= Len(live) THEN live[i] ELSE NoListener

\* const listeners = [...this.eventListeners.get(eventName)]; for (const listener of listeners)
ListenerAt(snapshot, live, i) == IF i <= Len(snapshot) THEN snapshot[i] ELSE NoListener

\* a throwing listener ends the loop and the error leaves emit
ListenerUncaught(b, i) == [b EXCEPT !.threw = TRUE, !.stop = TRUE]

\* catch (error) { console.error(...) }: the loop goes on
ListenerCaught(b, i) == b

BusEntry(listener, eventName, depth) ==
    [listener |-> listener, eventName |-> eventName, depth |-> depth]

RECURSIVE emit(_, _, _)
RECURSIVE DispatchLoop(_, _, _, _, _)
\* listener(data) inside the try block; b: [listeners, log, threw, stop]
InvokeListener(b, listener, eventName, depth, i) ==
    LET b1 == [b EXCEPT !.log = Append(@, BusEntry(listener, eventName, depth))]
        body == ListenerBody[listener]
    IN CASE body.kind = "off" ->
                [b1 EXCEPT !.listeners = off(@, eventName, body.target)]
         [] body.kind = "on" ->
                [b1 EXCEPT !.listeners = on(@, eventName, body.target)]
         [] body.kind = "throw" -> ListenerCaught(b1, i)
         [] body.kind = "emit" -> emit(b1, "inner", depth + 1)
         [] OTHER -> b1

DispatchLoop(b, eventName, depth, snapshot, i) ==
    LET listener == ListenerAt(snapshot, b.listeners[eventName], i)
    IN IF listener = NoListener \/ b.stop THEN b
       ELSE DispatchLoop(InvokeListener(b, listener, eventName, depth, i),
                         eventName, depth, snapshot, i + 1)

\* emit(eventName, data)
emit(b, eventName, depth) == DispatchLoop(b, eventName, depth, b.listeners[eventName], 1)

\* The callbacks the scenario subscribes to an event: those of "inner", the
\* event emitted from inside a callback, return or throw
ListenersOf(eventName) ==
    IF eventName = "inner"
    THEN {l \in Listeners : ListenerBody[l].kind \in {"return", "throw"}}
    ELSE Listeners

\* engine.on(eventName, callback), by a setup routine: before the first frame emits
On(eventName, callback) ==
    /\ emits = 0
    /\ Len(eventListeners[eventName]) < MaxListeners
    /\ callback \in ListenersOf(eventName)
    /\ eventListeners' = on(eventListeners, eventName, callback)
    /\ UNCHANGED <<busLog, busThrew, busEvent, emits>>
    /\ UNCHANGED <<engineVars, frameVars, sceneVars, trigVars, fsmVars, bodyVars, ctrlVars, contactVars, moveVars,
                   reentryVars, harvestVars, cycleVars>>

\* engine.off(eventName, callback), by a setup routine
Off(eventName, callback) ==
    /\ emits = 0
    /\ IndexOf(eventListeners[eventName], callback) # 0
    /\ eventListeners' = off(eventListeners, eventName, callback)
    /\ UNCHANGED <<busLog, busThrew, busEvent, emits>>
    /\ UNCHANGED <<engineVars, frameVars, sceneVars, trigVars, fsmVars, bodyVars, ctrlVars, contactVars, moveVars,
                   reentryVars, harvestVars, cycleVars>>

\* eventBus.emit(eventName, data) called by a system
Emit(eventName) ==
    /\ emits < MaxEmits
    /\ LET b == emit([listeners |-> eventListeners, log |-> <<>>, threw |-> FALSE,
                      stop |-> FALSE], eventName, 0)
       IN /\ eventListeners' = b.listeners
          /\ busLog' = b.log
          /\ busThrew' = b.threw
    /\ busEvent' = eventName
    /\ emits' = emits + 1
    /\ UNCHANGED <<engineVars, frameVars, sceneVars, trigVars, fsmVars, bodyVars, ctrlVars, contactVars, moveVars,
                   reentryVars, harvestVars, cycleVars>>

\* -------------------------------------------------------- collisionSystem
\* physics.world.getCollider(handle) for the handles of the scenario: 1 and 2
\* are colliders of entities, 3 has no userData, 4 has userData without an
\* entity, 5 is the handle of a collider that is gone
Handles == 1..5
getCollider(handle) ==
    CASE handle = 1 -> [present |-> TRUE, userData |-> TRUE, entity |-> 1]
      [] handle = 2 -> [present |-> TRUE, userData |-> TRUE, entity |-> 2]
      [] handle = 3 -> [present |-> TRUE, userData |-> FALSE, entity |-> 0]
      [] handle = 4 -> [present |-> TRUE, userData |-> TRUE, entity |-> 0]
      [] OTHER -> [present |-> FALSE, userData |-> FALSE, entity |-> 0]

\* (handle1, handle2, started): the two entities touching and parting, and
\* contacts with each kind of handle that does not resolve, on either side
Contact(handle1, handle2, started) ==
    [handle1 |-> handle1, handle2 |-> handle2, started |-> started]
Contacts ==
    {Contact(1, 2, TRUE), Contact(1, 2, FALSE)}
        \cup {Contact(1, h, TRUE) : h \in Handles \ {1, 2}}
        \cup {Contact(h, 2, FALSE) : h \in Handles \ {1, 2}}

ContactEvent(started, entityA, entityB) ==
    [eventName |-> IF started THEN "collision-started" ELSE "collision-ended",
     entityA |-> entityA, entityB |-> entityB]

\* the callback throwing on a handle it cannot resolve
UnresolvedThrows(b) == [b EXCEPT !.threw = TRUE]

\* return;
UnresolvedReturns(b) == b

\* The callback handed to drainCollisionEvents; b: [out, threw]
ContactCallback(b, c) ==
    LET collider1 == getCollider(c.handle1)
        collider2 == getCollider(c.handle2)
    IN IF ~collider1.present \/ ~collider2.present
          \/ ~collider1.userData \/ ~collider2.userData
       THEN UnresolvedReturns(b)
       ELSE IF collider1.entity = 0 \/ collider2.entity = 0
       THEN UnresolvedReturns(b)
       ELSE [b EXCEPT !.out = Append(@, ContactEvent(c.started, collider1.entity,
                                                      collider2.entity))]

\* physics.eventQueue.drainCollisionEvents(callback): an exception of the callback
\* ends the drain
RECURSIVE drainCollisionEvents(_, _, _)
drainCollisionEvents(b, queue, i) ==
    IF i > Len(queue) \/ b.threw THEN b
    ELSE drainCollisionEvents(ContactCallback(b, queue[i]), queue, i + 1)

\* collisionSystem(world, { physics, eventBus })
collisionSystem(queue) == drainCollisionEvents([out |-> <<>>, threw |-> FALSE], queue, 1)

\* What the physics step left in the event queue: up to MaxContacts contacts
ContactQueues == UNION {[1..n -> Contacts] : n \in 0..MaxContacts}

\* One frame's collisionProcessing pass
CollisionPass(queue) ==
    /\ drains < MaxDrains
    /\ LET b == collisionSystem(queue)
       IN /\ contactEmitted' = b.out
          /\ contactThrew' = b.threw
    /\ contactQueue' = queue
    /\ drains' = drains + 1
    /\ UNCHANGED <<engineVars, frameVars, sceneVars, trigVars, fsmVars, bodyVars, ctrlVars,
                   busVars, moveVars, reentryVars, harvestVars, cycleVars>>

\* ----------------------------------------------- componentMovementSystem
\* Vectors <<x, y, z>> of the scenario: displacements of one unit per frame
ZeroVector == <<0, 0, 0>>
Velocities == {ZeroVector, <<1, 0, 0>>, <<0, 0, 1>>, <<0, -1, 0>>}
Directions == {ZeroVector, <<1, 0, 0>>, <<0, 0, 1>>, <<-1, 0, 0>>}

\* v.lengthSq()
lengthSq(v) == v[1] * v[1] + v[2] * v[2] + v[3] * v[3]

\* Math.atan2(direction.x, direction.z) in degrees, for the directions above
Yaw(direction) ==
    CASE direction[1] > 0 -> 90
      [] direction[1] < 0 -> -90
      [] OTHER -> 0

\* no next kinematic translation set since the last physics step
NoNext == <<>>

\* the test of the velocity left out: the sweep is made for every entity
NeverSkips(velocity) == FALSE

\* if (velocity.lengthSq() === 0) continue
SkipsSweep(velocity) == lengthSq(velocity) = 0

\* if (direction.lengthSq() > 0) body.setRotation(yaw quaternion)
ApplyRotation(m, direction) ==
    IF lengthSq(direction) > 0
    THEN [m EXCEPT !.body.yaw = Yaw(direction), !.rotations = @ + 1]
    ELSE m

\* ctrl.computeColliderMovement(collider, moveVec); corrected = ctrl.computedMovement();
\* body.setNextKinematicTranslation(currentPos + corrected)
ApplySweep(m, velocity, corrected) ==
    IF SkipsSweep(velocity) THEN m
    ELSE [m EXCEPT !.sweeps = @ + 1,
                   !.body.next = <<m.body.translation[1] + corrected[1],
                                   m.body.translation[2] + corrected[2],
                                   m.body.translation[3] + corrected[3]>>]

\* The body of componentMovementSystem's loop for the controller entity;
\* m: [body, sweeps, rotations]
componentMovementSystem(m, ms, corrected) ==
    ApplySweep(ApplyRotation(m, ms.direction), ms.velocity, corrected)

\* The game's input system writes the movement intent
SetIntent(velocity, direction) ==
    /\ movePasses < MaxMovePasses
    /\ kinMovement # [velocity |-> velocity, direction |-> direction]
    /\ kinMovement' = [velocity |-> velocity, direction |-> direction]
    /\ UNCHANGED <<rigidBody, ctrlSweeps, rotationsSet, movePasses>>
    /\ UNCHANGED <<engineVars, frameVars, sceneVars, trigVars, fsmVars, bodyVars, ctrlVars,
                   busVars, contactVars, reentryVars, harvestVars, cycleVars>>

\* One frame's movement pass; corrected: what the character controller computes,
\* the requested displacement or none of it when the way is blocked
MovementPass(corrected) ==
    /\ movePasses < MaxMovePasses
    /\ corrected \in {kinMovement.velocity, ZeroVector}
    /\ LET m == componentMovementSystem(
                    [body |-> rigidBody, sweeps |-> ctrlSweeps, rotations |-> rotationsSet],
                    kinMovement, corrected)
       IN /\ rigidBody' = m.body
          /\ ctrlSweeps' = m.sweeps
          /\ rotationsSet' = m.rotations
    /\ movePasses' = movePasses + 1
    /\ UNCHANGED kinMovement
    /\ UNCHANGED <<engineVars, frameVars, sceneVars, trigVars, fsmVars, bodyVars, ctrlVars,
                   busVars, contactVars, reentryVars, harvestVars, cycleVars>>

\* physicsStep: the kinematic body moves to the next translation that was set
StepPhysics ==
    /\ rigidBody.next # NoNext
    /\ rigidBody' = [rigidBody EXCEPT !.translation = rigidBody.next, !.next = NoNext]
    /\ UNCHANGED <<kinMovement, ctrlSweeps, rotationsSet, movePasses>>
    /\ UNCHANGED <<engineVars, frameVars, sceneVars, trigVars, fsmVars, bodyVars, ctrlVars,
                   busVars, contactVars, reentryVars, harvestVars, cycleVars>>

\* ------------------------------------ characterControllerCollisionSystem
\* The entities the controller's sweep can report, by object identity (key):
\* 1 has an 'id' component, 2 a testId, 3 and 4 have neither (the game adds its
\* environment objects without an id).
OtherEntities == << [key |-> 1, id |-> 1, testId |-> NoId],
             [key |-> 2, id |-> NoId, testId |-> 7],
             [key |-> 3, id |-> NoId, testId |-> NoId],
             [key |-> 4, id |-> NoId, testId |-> NoId] >>

\* the string "unknown"
Unknown == -1

\* collision.collider without userData.entity
NoOther == 0

\* const otherEntityId = otherEntity.id || otherEntity.testId || "unknown"
OtherEntityId(o) ==
    IF o.id # NoId THEN o.id ELSE IF o.testId # NoId THEN o.testId ELSE Unknown

\* A Map id -> entity as a set of <<id, entity>>: has, set
CollisionsHas(m, k) == \E q \in m : q[1] = k
CollisionsSet(m, k, v) == {q \in m : q[1] # k} \cup {<<k, v>>}

\* { entityA: entity, entityB: otherEntity, controllerCollision: true }
CtrlEvent(ev, b) == [ev |-> ev, entityB |-> b, controllerCollision |-> TRUE]

\* for (let i = 0; i < numCollisions; i++): set the entry, emit
\* 'collision-started' when lastFrameCollisions has no such id
RECURSIVE CollisionLoop(_, _, _, _, _)
CollisionLoop(results, i, cur, last, out) ==
    IF i > Len(results) THEN [cur |-> cur, out |-> out]
    ELSE IF results[i] = NoOther THEN CollisionLoop(results, i + 1, cur, last, out)
    ELSE LET otherEntity == OtherEntities[results[i]]
             otherEntityId == OtherEntityId(otherEntity)
         IN CollisionLoop(results, i + 1,
                          CollisionsSet(cur, otherEntityId, otherEntity.key), last,
                          IF ~CollisionsHas(last, otherEntityId)
                          THEN Append(out, CtrlEvent("collision-started", otherEntity.key))
                          ELSE out)

\* for (const [otherEntityId, otherEntity] of lastFrameCollisions): emit
\* 'collision-ended' with the cached entity when currentCollisions has no such id
RECURSIVE EndedLoop(_, _, _)
EndedLoop(last, cur, out) ==
    IF last = {} THEN out
    ELSE LET q == CHOOSE x \in last : \A y \in last : x[1] <= y[1]
         IN EndedLoop(last \ {q}, cur,
                      IF ~CollisionsHas(cur, q[1])
                      THEN Append(out, CtrlEvent("collision-ended", q[2]))
                      ELSE out)

\* characterControllerCollisionSystem(world, { physics, eventBus }) for the
\* controller entity; results: ctrl.computedCollision(0 .. numCollisions - 1)
characterControllerCollisionSystem(tracker, results) ==
    LET last == tracker.currentCollisions
        r == CollisionLoop(results, 1, {}, last, <<>>)
    IN [tracker |-> [currentCollisions |-> r.cur, lastFrameCollisions |-> last],
        out |-> EndedLoop(last, r.cur, r.out)]

\* What one sweep of the controller can report: up to MaxCollisions colliders,
\* each at most once
SweepResults ==
    UNION {{r \in [1..n -> 0..Len(OtherEntities)] : \A i, j \in 1..n : i # j => r[i] # r[j]} :
              n \in 0..MaxCollisions}

\* One frame's characterControllerCollisionProcessing pass
ControllerSweep(results) ==
    /\ ctrlPasses < MaxCtrlPasses
    /\ LET r == characterControllerCollisionSystem(characterControllerCollisions, results)
       IN /\ characterControllerCollisions' = r.tracker
          /\ ctrlEmitted' = r.out
    /\ ctrlPrevTouched' = ctrlTouched
    /\ ctrlTouched' = {results[i] : i \in 1..Len(results)} \ {NoOther}
    /\ ctrlPasses' = ctrlPasses + 1
    /\ UNCHANGED <<engineVars, frameVars, sceneVars, trigVars, fsmVars, bodyVars, busVars, contactVars, moveVars,
                   reentryVars, harvestVars, cycleVars>>

\* ------------------------------------------------ physics body creation
\* The component names the game registers a body factory for
\* (physics.registerBodyFactory): environment objects, the terrain, the player.
BodyTags == {"isMeshCollider", "isTerrain", "isPlayer"}

\* world.add({ <tag>: true, transform, renderable, ... }); ready: what the factory
\* of the tag waits for is there (renderable.mesh for isMeshCollider, the collision
\* geometry for isTerrain)
NewBodyEntity(tag, ready) ==
    [tag |-> tag, ready |-> ready, body |-> NoBody, factoryCalls |-> 0,
     inStore |-> TRUE, removedAt |-> 0]

\* every entity object ever created is iterated, in the store or not
InStoreOrNot(ent) == TRUE

\* for (const entity of world) / world.with("isMeshCollider"): the entities in the store
InStore(ent) == ent.inStore

\* What the body factory of the entity's tag returns: isMeshCollider returns null
\* while renderable.mesh is missing, isTerrain returns null without collision
\* geometry, isPlayer always builds a body
FactoryBuilds(ent) == ent.tag = "isPlayer" \/ ent.ready

\* const body = factory(entity, {...}); if (body) world.addComponent(entity, "physicsBody", body)
BodyFactoryCall(bs, e) ==
    [bs EXCEPT ![e].factoryCalls = @ + 1,
               ![e].body = IF FactoryBuilds(bs[e]) THEN e ELSE NoBody]

\* physicsBodySetupSystem(world, { physics }): every entity without physicsBody,
\* the factory of its first component name that has one
RECURSIVE physicsBodySetupSystem(_, _)
physicsBodySetupSystem(bs, e) ==
    IF e > Len(bs) THEN bs
    ELSE physicsBodySetupSystem(
             IF InStore(bs[e]) /\ bs[e].body = NoBody /\ bs[e].tag \in BodyTags
             THEN BodyFactoryCall(bs, e) ELSE bs,
             e + 1)

\* world.with("isMeshCollider").filter(entity => !entity.physicsBody && entity.renderable?.mesh)
NeedsPhysics(ent) == ent.tag = "isMeshCollider" /\ ent.body = NoBody /\ ent.ready

\* the update of the 'mesh-collision-retry' runtime system
RECURSIVE meshCollisionRetry(_, _)
meshCollisionRetry(bs, e) ==
    IF e > Len(bs) THEN bs
    ELSE meshCollisionRetry(IF InStore(bs[e]) /\ NeedsPhysics(bs[e])
                            THEN BodyFactoryCall(bs, e) ELSE bs,
                            e + 1)

\* world.add of an entity carrying a body-factory tag, by a setup routine or later
AddBodyEntity(tag, ready) ==
    /\ Len(bodyEnts) < MaxBodyEntities
    /\ bodyEnts' = Append(bodyEnts, NewBodyEntity(tag, ready))
    /\ UNCHANGED <<bodySetupRan, sweeps>>
    /\ UNCHANGED <<engineVars, frameVars, sceneVars, trigVars, fsmVars, ctrlVars, busVars, contactVars, moveVars,
                   reentryVars, harvestVars, cycleVars>>

\* The GLTF mesh of the entity gets loaded / the collision geometry gets there
BecomeReady(e) ==
    /\ e \in 1..Len(bodyEnts)
    /\ ~bodyEnts[e].ready
    /\ bodyEnts' = [bodyEnts EXCEPT ![e].ready = TRUE]
    /\ UNCHANGED <<bodySetupRan, sweeps>>
    /\ UNCHANGED <<engineVars, frameVars, sceneVars, trigVars, fsmVars, ctrlVars, busVars, contactVars, moveVars,
                   reentryVars, harvestVars, cycleVars>>

\* world.remove(entity); removedAt: the number of sweeps made so far
RemoveBodyEntity(e) ==
    /\ e \in 1..Len(bodyEnts)
    /\ bodyEnts[e].inStore
    /\ bodyEnts' = [bodyEnts EXCEPT ![e].inStore = FALSE, ![e].removedAt = sweeps]
    /\ UNCHANGED <<bodySetupRan, sweeps>>
    /\ UNCHANGED <<engineVars, frameVars, sceneVars, trigVars, fsmVars, ctrlVars, busVars,
                   contactVars, moveVars, reentryVars, harvestVars, cycleVars>>

\* init(): the core setup routine 'physicsBodyCreation', after the game's routines
PhysicsBodyCreation ==
    /\ ~bodySetupRan
    /\ bodySetupRan' = TRUE
    /\ bodyEnts' = physicsBodySetupSystem(bodyEnts, 1)
    /\ UNCHANGED sweeps
    /\ UNCHANGED <<engineVars, frameVars, sceneVars, trigVars, fsmVars, ctrlVars, busVars, contactVars, moveVars,
                   reentryVars, harvestVars, cycleVars>>

\* One frame's 'mesh-collision-retry' update
RetrySweep ==
    /\ bodySetupRan
    /\ sweeps < MaxSweeps
    /\ sweeps' = sweeps + 1
    /\ bodyEnts' = meshCollisionRetry(bodyEnts, 1)
    /\ UNCHANGED bodySetupRan
    /\ UNCHANGED <<engineVars, frameVars, sceneVars, trigVars, fsmVars, ctrlVars, busVars, contactVars, moveVars,
                   reentryVars, harvestVars, cycleVars>>

\* ------------------------------------------------------- initial states
\* new GameSystems(), then the registrations given
EngineInit(setups, systems) ==
    /\ resources = <<>>
    /\ setupSystems = setups
    /\ runtimeSystems = systems
    /\ initialized = FALSE
    /\ pc = "config"
    /\ ri = 0
    /\ si = 0
    /\ completed = {}
    /\ inProgress = {}
    /\ initError = NoError
    /\ setupLog = <<>>
    /\ initCalls = 0
    /\ loops = 0
    /\ factoryLog = <<>>
    /\ lastCall = NoCall

FrameInit ==
    /\ frameNo = 0
    /\ lastRun = <<>>
    /\ prevRun = <<>>
    /\ renders = 0

SceneIdle ==
    /\ ents = <<>>
    /\ world = <<>>
    /\ trackedMeshes = <<>>
    /\ trackedPhysicsBodies = <<>>
    /\ scene = {}
    /\ calls = NoCalls
    /\ passNo = 0
    /\ passFailed = FALSE
    /\ removedAt = <<>>
    /\ lastOutcome = <<>>

TrigIdle ==
    /\ detectors = <<>>
    /\ zones = <<>>
    /\ overlap = {}
    /\ prevOverlap = {}
    /\ emitted = <<>>
    /\ lastEvent = <<>>
    /\ doubleEnter = {}
    /\ trigPasses = 0

\* if (!entity.characterControllerCollisions): two empty Maps
CtrlIdle ==
    /\ characterControllerCollisions = [currentCollisions |-> {}, lastFrameCollisions |-> {}]
    /\ ctrlEmitted = <<>>
    /\ ctrlTouched = {}
    /\ ctrlPrevTouched = {}
    /\ ctrlPasses = 0

\* this.eventListeners = new Map()
BusIdle ==
    /\ eventListeners = [e \in EventNames |-> <<>>]
    /\ busLog = <<>>
    /\ busThrew = FALSE
    /\ busEvent = None
    /\ emits = 0

ContactIdle ==
    /\ contactQueue = <<>>
    /\ contactEmitted = <<>>
    /\ contactThrew = FALSE
    /\ drains = 0

\* createMovementState(): velocity and direction (0, 0, 0); the body at the origin
MoveIdle ==
    /\ kinMovement = [velocity |-> ZeroVector, direction |-> ZeroVector]
    /\ rigidBody = [translation |-> ZeroVector, yaw |-> 0, next |-> NoNext]
    /\ ctrlSweeps = 0
    /\ rotationsSet = 0
    /\ movePasses = 0

ReentryIdle == suspended = NoActivation /\ detached = FALSE

HarvestIdle ==
    /\ placed = <<>>
    /\ storeEntities = <<>>
    /\ sugarcaneQuery = <<>>
    /\ harvestVisited = <<>>
    /\ harvests = 0

\* the store's initial state
CycleIdle ==
    /\ gamePhase = "IDLE"
    /\ currentYear = FirstYear
    /\ performanceHistory = <<>>
    /\ startTimers = 0
    /\ winScreen = FALSE
    /\ actionButton = FALSE
    /\ restarts = 0

BodyIdle ==
    /\ bodyEnts = <<>>
    /\ bodySetupRan = FALSE
    /\ sweeps = 0

FsmIdle ==
    /\ stateMachine = createStateMachine(NoMachine)
    /\ movementState = createMovementState
    /\ animationMixer = createAnimationMixer
    /\ fsmTrace = NoTrace
    /\ evals = 0
    /\ smCreation = NoCreation

BootSteps ==
    \/ InitCall
    \/ \E out \in FactorySettles : FactoryDone(out)
    \/ SetupBegin
    \/ \E ok \in BOOLEAN : SetupEnd(ok)
    \/ \E thr \in ThrowSets(runtimeSystems) : BootFinish(thr)
    \/ \E thr \in ThrowSets(runtimeSystems) : Frame(thr)

\* ---- the setup scheduler: the game registers any setup routines, in any order,
\* with the runtime systems main() registers
InitBoot ==
    /\ EngineInit(<<>>, RegisterAllSystems(<<>>, MainSystems))
    /\ FrameInit /\ SceneIdle /\ TrigIdle /\ FsmIdle /\ BodyIdle /\ CtrlIdle /\ BusIdle /\ ContactIdle /\ MoveIdle
    /\ ReentryIdle /\ HarvestIdle /\ CycleIdle

NextBoot ==
    \/ \E d \in GameSetupCatalogue : RegisterSetup(d)
    \/ BootSteps

SpecBoot == InitBoot /\ [][NextBoot]_vars

\* ---- the frame scheduler: the game registers any runtime systems, in any order,
\* with the setup routines main() registers
InitSched ==
    /\ EngineInit(MainSetups, <<>>)
    /\ FrameInit /\ SceneIdle /\ TrigIdle /\ FsmIdle /\ BodyIdle /\ CtrlIdle /\ BusIdle /\ ContactIdle /\ MoveIdle
    /\ ReentryIdle /\ HarvestIdle /\ CycleIdle

NextSched ==
    \/ \E d \in GameSystemCatalogue : RegisterSystem(d)
    \/ BootSteps

SpecSched == InitSched /\ [][NextSched]_vars

\* ---- the resource registry: the game registers resources, routines and systems
\* and publishes instances, before init() and after it, and calls init() again
GameResourceCatalogue == {"terrain"}

RegistrySetups == {
    SetupDef("game-terrain-setup", <<"physics", "renderer">>, "terrain"),
    SetupDef("game-player-setup", <<"physics", "renderer", "assets", "terrain">>, None) }

RegistrySystems == { SystemDef("animal-ai", <<"terrain">>, 40, TRUE) }

AddedNames == {"eventBus", "terrain", "physics"}

InitRegistry ==
    /\ EngineInit(<<>>, <<>>)
    /\ FrameInit /\ SceneIdle /\ TrigIdle /\ FsmIdle /\ BodyIdle /\ CtrlIdle /\ BusIdle /\ ContactIdle /\ MoveIdle
    /\ ReentryIdle /\ HarvestIdle /\ CycleIdle

NextRegistry ==
    \/ \E n \in GameResourceCatalogue : RegisterResource(n)
    \/ \E d \in RegistrySetups : RegisterSetup(d)
    \/ \E d \in RegistrySystems : RegisterSystem(d)
    \/ \E n \in AddedNames, v \in GameInstances : AddResource(n, v)
    \/ InitAgain
    \/ BootSteps

SpecRegistry == InitRegistry /\ [][NextRegistry]_vars

\* ---- the lifecycle synchronizer: entities come and go between passes
EngineIdle == EngineInit(<<>>, <<>>)

InitScene ==
    /\ SceneIdle
    /\ EngineIdle /\ FrameInit /\ TrigIdle /\ FsmIdle /\ BodyIdle /\ CtrlIdle /\ BusIdle /\ ContactIdle /\ MoveIdle
    /\ ReentryIdle /\ HarvestIdle /\ CycleIdle

NextScene ==
    \/ \E f \in BOOLEAN : AddEntity(f)
    \/ \E e \in 1..Len(ents) : RemoveEntity(e)
    \/ \E e \in 1..Len(ents) : AttachBody(e)
    \/ \E outs \in [1..Len(ents) -> FactoryOutcomes] : ScenePass(outs)

SpecScene == InitScene /\ [][NextScene]_vars

\* ---- trigger detection: detectors and zones are created and detectors move
\* between passes
InitTrigger ==
    /\ TrigIdle
    /\ EngineIdle /\ FrameInit /\ SceneIdle /\ FsmIdle /\ BodyIdle /\ CtrlIdle /\ BusIdle /\ ContactIdle /\ MoveIdle
    /\ ReentryIdle /\ HarvestIdle /\ CycleIdle

NextTrigger ==
    \/ \E hasId \in BOOLEAN, r \in DetectorRadii, p \in Positions : AddDetector(hasId, r, p)
    \/ \E p \in Positions : AddZone(p)
    \/ \E i \in 1..Len(detectors), p \in Positions : MoveDetector(i, p)
    \/ \E i \in 1..Len(detectors) : RemoveDetector(i)
    \/ TriggerPass

SpecTrigger == InitTrigger /\ [][NextTrigger]_vars

\* ---- the state machine interpreter: an entity with one of the machines, its
\* movementState written between evaluations
InitFsm ==
    /\ \E definition \in Machines :
          /\ stateMachine = createStateMachine(definition)
          /\ smCreation = [definition |-> definition, made |-> TRUE, threw |-> FALSE,
                           withMovement |-> TRUE]
    /\ movementState = createMovementState
    /\ animationMixer = createAnimationMixer
    /\ fsmTrace = NoTrace
    /\ evals = 0
    /\ EngineIdle /\ FrameInit /\ SceneIdle /\ TrigIdle /\ BodyIdle /\ CtrlIdle /\ BusIdle /\ ContactIdle /\ MoveIdle
    /\ ReentryIdle /\ HarvestIdle /\ CycleIdle

NextFsm ==
    \/ \E s \in Speeds, g \in BOOLEAN : SetMovement(s, g)
    \/ Evaluate

SpecFsm == InitFsm /\ [][NextFsm]_vars

\* ---- state machine creation: the game hands any definition to
\* createStateMachine, then the entity is evaluated frame after frame
InitMachines ==
    /\ FsmIdle
    /\ EngineIdle /\ FrameInit /\ SceneIdle /\ TrigIdle /\ BodyIdle /\ CtrlIdle /\ BusIdle /\ ContactIdle /\ MoveIdle
    /\ ReentryIdle /\ HarvestIdle /\ CycleIdle

NextMachines ==
    \/ \E definition \in Definitions, withMovement \in BOOLEAN :
          CreateMachine(definition, withMovement)
    \/ \E s \in Speeds, g \in BOOLEAN : SetMovement(s, g)
    \/ Evaluate

SpecMachines == InitMachines /\ [][NextMachines]_vars

\* ---- physics body creation: tagged entities are added before and after boot,
\* what their factories wait for arrives at any time
InitBodies ==
    /\ BodyIdle
    /\ EngineIdle /\ FrameInit /\ SceneIdle /\ TrigIdle /\ FsmIdle /\ CtrlIdle /\ BusIdle /\ ContactIdle /\ MoveIdle
    /\ ReentryIdle /\ HarvestIdle /\ CycleIdle

NextBodies ==
    \/ \E tag \in BodyTags, ready \in BOOLEAN : AddBodyEntity(tag, ready)
    \/ \E e \in 1..Len(bodyEnts) : BecomeReady(e)
    \/ \E e \in 1..Len(bodyEnts) : RemoveBodyEntity(e)
    \/ PhysicsBodyCreation
    \/ RetrySweep

SpecBodies == InitBodies /\ [][NextBodies]_vars

\* ---- controller collisions: the sweep of the character controller reports any
\* colliders frame after frame
InitCtrl ==
    /\ CtrlIdle
    /\ EngineIdle /\ FrameInit /\ SceneIdle /\ TrigIdle /\ FsmIdle /\ BodyIdle /\ BusIdle /\ ContactIdle /\ MoveIdle
    /\ ReentryIdle /\ HarvestIdle /\ CycleIdle

NextCtrl == \E results \in SweepResults : ControllerSweep(results)

SpecCtrl == InitCtrl /\ [][NextCtrl]_vars

\* ---- the event bus: callbacks are subscribed and unsubscribed, events emitted
InitBus ==
    /\ BusIdle
    /\ EngineIdle /\ FrameInit /\ SceneIdle /\ TrigIdle /\ FsmIdle /\ BodyIdle /\ CtrlIdle /\ ContactIdle /\ MoveIdle
    /\ ReentryIdle /\ HarvestIdle /\ CycleIdle

NextBus ==
    \/ \E eventName \in EventNames, callback \in Listeners : On(eventName, callback)
    \/ \E eventName \in EventNames, callback \in Listeners : Off(eventName, callback)
    \/ \E eventName \in EventNames : Emit(eventName)

SpecBus == InitBus /\ [][NextBus]_vars

\* ---- contact events: the physics step queues any contacts, frame after frame
InitContacts ==
    /\ ContactIdle
    /\ EngineIdle /\ FrameInit /\ SceneIdle /\ TrigIdle /\ FsmIdle /\ BodyIdle /\ CtrlIdle /\ MoveIdle
    /\ BusIdle /\ ReentryIdle /\ HarvestIdle /\ CycleIdle

NextContacts == \E queue \in ContactQueues : CollisionPass(queue)

SpecContacts == InitContacts /\ [][NextContacts]_vars

\* ---- kinematic movement: the intent changes between frames, each frame runs
\* the movement pass and the physics step
InitMove ==
    /\ MoveIdle
    /\ EngineIdle /\ FrameInit /\ SceneIdle /\ TrigIdle /\ FsmIdle /\ BodyIdle /\ CtrlIdle
    /\ BusIdle /\ ContactIdle /\ ReentryIdle /\ HarvestIdle /\ CycleIdle

NextMove ==
    \/ \E velocity \in Velocities, direction \in Directions : SetIntent(velocity, direction)
    \/ \E corrected \in Velocities : MovementPass(corrected)
    \/ StepPhysics

SpecMove == InitMove /\ [][NextMove]_vars

\* ---- start-up: main()'s registrations, init() calls and update() calls from
\* outside the frame loop
InitStart ==
    /\ EngineInit(MainSetups, RegisterAllSystems(<<>>, MainSystems))
    /\ FrameInit /\ SceneIdle /\ TrigIdle /\ FsmIdle /\ BodyIdle /\ CtrlIdle /\ BusIdle /\ ContactIdle /\ MoveIdle
    /\ ReentryIdle /\ HarvestIdle /\ CycleIdle

NextStart ==
    \/ \E thr \in ThrowSets(runtimeSystems) : UpdateCall(thr)
    \/ InitAgain
    \/ BootSteps

SpecStart == InitStart /\ [][NextStart]_vars

\* ---- init() called again while the first call waits at an await
InitReentry ==
    /\ EngineInit(MainSetups, RegisterAllSystems(<<>>, MainSystems))
    /\ FrameInit /\ SceneIdle /\ TrigIdle /\ FsmIdle /\ BodyIdle /\ CtrlIdle /\ BusIdle
    /\ ContactIdle /\ MoveIdle /\ ReentryIdle /\ HarvestIdle /\ CycleIdle

NextReentry ==
    \/ InitCall
    \/ InitReentrant
    \/ Resume
    \/ \E out \in {"instance", "throw"} : ~detached /\ FactoryDone(out)
    \/ \E out \in {"instance", "throw"} : DetachedFactoryDone(out)
    \/ SetupBegin
    \/ \E ok \in BOOLEAN : SetupEnd(ok)
    \/ \E thr \in {{}} : BootFinish(thr)
    \/ \E thr \in {{}} : Frame(thr)

SpecReentry == InitReentry /\ [][NextReentry]_vars

\* ---- harvest: objects are placed and removed, the sugarcane is harvested
InitHarvest ==
    /\ EngineInit(<<>>, <<>>)
    /\ FrameInit /\ SceneIdle /\ TrigIdle /\ FsmIdle /\ BodyIdle /\ CtrlIdle /\ BusIdle
    /\ ContactIdle /\ MoveIdle /\ ReentryIdle /\ HarvestIdle /\ CycleIdle

NextHarvest ==
    \/ \E sugarcane \in BOOLEAN : PlaceObject(sugarcane)
    \/ \E e \in 1..Len(placed) : RemoveObject(e)
    \/ Harvest

SpecHarvest == InitHarvest /\ [][NextHarvest]_vars

\* ---- the game cycle, played through the buttons and the timers
InitCycle ==
    /\ EngineInit(<<>>, <<>>)
    /\ FrameInit /\ SceneIdle /\ TrigIdle /\ FsmIdle /\ BodyIdle /\ CtrlIdle /\ BusIdle
    /\ ContactIdle /\ MoveIdle /\ ReentryIdle /\ HarvestIdle /\ CycleIdle

NextCycle ==
    \/ StartGameClick
    \/ StartNewYearTimer
    \/ \E met \in BOOLEAN : MainActionClick(met)
    \/ RestartClick

SpecCycle == InitCycle /\ [][NextCycle]_vars

\* ---- removal: the mesh lifecycle and the body creation, each with entities
\* leaving the store; a behaviour follows one of the two
SceneUntouched == ents = <<>> /\ passNo = 0
BodiesUntouched == bodyEnts = <<>> /\ ~bodySetupRan

NextRemoval ==
    \/ BodiesUntouched /\ NextScene
    \/ SceneUntouched /\ NextBodies

SpecRemoval == InitScene /\ [][NextRemoval]_vars

\* =========================================================== properties
\* The runtime systems whose declared dependencies resolve, in list order.
RECURSIVE Runnable(_, _)
Runnable(systems, res) ==
    IF systems = <<>> THEN <<>>
    ELSE (IF DepsAvailable(res, Head(systems).deps) THEN <<Head(systems)>> ELSE <<>>)
         \o Runnable(Tail(systems), res)

NamesOf(s) == [k \in 1..Len(s) |-> s[k].name]

GameSetupNames == {setupSystems[k].name : k \in 1..Len(setupSystems)}
                  \ {CoreSetups[k].name : k \in 1..Len(CoreSetups)}

LogIndex(ev, n) == {k \in 1..Len(setupLog) : setupLog[k] = [ev |-> ev, name |-> n]}

\* C1: in every frame update() invokes the registered runtime systems in ascending
\* priority order, whatever the order in which they were registered: the sequence
\* of invoked systems is non-decreasing in priority and misses no system whose
\* dependencies resolve.
C1_AscendingPriorityOrder ==
    frameNo > 0 =>
        /\ \A i, j \in 1..Len(lastRun) :
               i < j => lastRun[i].priority <= lastRun[j].priority
        /\ Len(lastRun) = Len(Runnable(runtimeSystems, resources))
        /\ \A k \in 1..Len(runtimeSystems) :
               DepsAvailable(resources, runtimeSystems[k].deps)
                   => \E j \in 1..Len(lastRun) : lastRun[j].name = runtimeSystems[k].name

\* C1 witness: a frame ran in which a system registered by the game before init
\* (priority 30) ran after core systems registered later (priority 10) and before
\* others (priority 35), and the priority-900 game system ran last.
C1_Witness ==
    /\ frameNo > 0
    /\ \E i, j, k \in 1..Len(lastRun) :
           /\ i < j /\ j < k
           /\ lastRun[i].name = "inputInterpretation"
           /\ lastRun[j].name = "player-movement"
           /\ lastRun[k].name = "componentMovement"
    /\ lastRun[Len(lastRun)].name = "mesh-collision-retry"

\* C2: a runtime system whose update throws in frame N stops nothing: every
\* system of the list whose dependencies resolve is still invoked in frame N (in
\* particular those after the throwing one), the render pass happens in every
\* frame, and a system that threw in frame N is invoked again in frame N+1.
C2_ThrowIsIsolated ==
    frameNo > 0 =>
        /\ NamesOf(lastRun) = NamesOf(Runnable(runtimeSystems, resources))
        /\ renders = frameNo
        /\ frameNo > 1 =>
               \A k \in 1..Len(prevRun) :
                   prevRun[k].threw => k <= Len(lastRun) /\ lastRun[k].name = prevRun[k].name

\* C2 witness: a system threw in the previous frame with other systems after it in
\* the order, those ran, and the system was invoked again in the latest frame.
C2_Witness ==
    /\ frameNo > 1
    /\ \E k \in 1..Len(prevRun) :
           /\ prevRun[k].threw
           /\ k < Len(prevRun)
           /\ ~prevRun[k + 1].threw
           /\ lastRun[k].name = prevRun[k].name
    /\ renders = frameNo

\* C3 (as claimed): for every registration order of the terrain routine A (which
\* publishes 'terrain') and the player routine B (which depends on 'terrain'), a
\* boot in which no factory fails and no init throws runs A's init to completion
\* before B's init starts.
C3_DependencyOrderAnyRegistration ==
    ( /\ pc \in {"done", "failed"}
      /\ GameSetupNames = {"game-terrain-setup", "game-player-setup"}
      /\ initError.kind # "factoryFailed"
      /\ \A k \in 1..Len(setupLog) : setupLog[k].ev # "throw" )
    => \E i \in LogIndex("end", "game-terrain-setup") :
           \E j \in LogIndex("start", "game-player-setup") : i < j

\* C4 (as claimed): three setup routines that form a dependency cycle make init()
\* fail with a circular-dependency error naming a routine, before the init of any
\* of the three has been invoked.
C4_CycleReportedAsCircular ==
    ( /\ pc \in {"done", "failed"}
      /\ GameSetupNames = {"cycA", "cycB", "cycC"}
      /\ initError.kind # "factoryFailed" )
    => /\ initError.kind = "circular"
       /\ initError.name \in {"cycA", "cycB", "cycC"}
       /\ \A k \in 1..Len(setupLog) : setupLog[k].name \notin {"cycA", "cycB", "cycC"}

\* C5: when a setup routine's init throws, init() rejects with an error carrying
\* the routine's name and the underlying message, the throw is the last thing the
\* setup scheduler did (no later routine is run), the engine is not initialized,
\* no frame loop was started and no frame ran.
C5_FailingInitAbortsBoot ==
    \A k \in 1..Len(setupLog) :
        setupLog[k].ev = "throw" =>
            /\ k = Len(setupLog)
            /\ pc = "failed"
            /\ initError.kind = "setupFailed"
            /\ initError.name = setupLog[k].name
            /\ initError.name = setupSystems[si].name
            /\ initError.cause[1] \in {"init error", "already exists"}
            /\ ~initialized
            /\ loops = 0
            /\ frameNo = 0

\* C5 witness: an init threw after another routine had completed and with further
\* routines registered after it.
C5_Witness ==
    /\ pc = "failed"
    /\ initError.kind = "setupFailed"
    /\ initError.cause[1] = "init error"
    /\ Len(setupLog) > 2
    /\ setupLog[Len(setupLog)].ev = "throw"
    /\ si < Len(setupSystems)

TrackedFor(t, e) == {i \in 1..Len(t) : t[i].entity = e}

\* C6 (as claimed): when the mesh factory of an entity returned undefined ("not
\* ready") the last time it was invoked, the entity still has renderable.needsMesh
\* set (so that a later pass invokes the factory again), scene.add was not called
\* for it and trackedMeshes holds no association for it.
C6_NotReadyIsRetried ==
    \A e \in DOMAIN lastOutcome :
        lastOutcome[e] = Undefined =>
            /\ ents[e].needsMesh
            /\ TrackedFor(trackedMeshes, e) = {}
            /\ Count(calls.sceneAdd, UndefinedMesh) = 0

\* C7 (as claimed): an entity removed from the store while it owned a tracked mesh
\* and a tracked physics body: before the next sceneManagement pass nothing has
\* been removed for it; once a pass has run after the removal, scene.remove was
\* called exactly once for the mesh, removeCollider and removeRigidBody exactly
\* once for the body, and both associations are gone.
C7_DisposedExactlyOnce ==
    \A e \in DOMAIN removedAt :
        LET r == removedAt[e]
        IN (r.mesh # NoMesh /\ r.body # NoBody) =>
               IF passNo > r.pass
               THEN /\ Count(calls.sceneRemove, r.mesh) = 1
                    /\ Count(calls.removeCollider, r.body) = 1
                    /\ Count(calls.removeRigidBody, r.body) = 1
                    /\ r.mesh \notin TrackedKeys(trackedMeshes)
                    /\ r.body \notin TrackedKeys(trackedPhysicsBodies)
               ELSE /\ Count(calls.sceneRemove, r.mesh) = 0
                    /\ Count(calls.removeCollider, r.body) = 0
                    /\ Count(calls.removeRigidBody, r.body) = 0

EventCount(ev, d, z) ==
    Cardinality({k \in 1..Len(emitted) : emitted[k] = [ev |-> ev, d |-> d, z |-> z]})

\* C8 (as claimed): after a triggerDetection pass, for every detector and zone in
\* the store, 'trigger-entered' was emitted for the pair exactly once if it
\* overlaps now and did not at the previous pass, 'trigger-exited' exactly once if
\* it overlapped at the previous pass and does not now, nothing otherwise; and no
\* pair ever gets two enters without an exit in between.
C8_OneEventPerTransition ==
    trigPasses > 0 =>
        /\ \A i \in 1..Len(detectors), j \in 1..Len(zones) :
               LET p == <<detectors[i].key, zones[j].key>>
               IN detectors[i].inStore =>
                  /\ EventCount("entered", p[1], p[2])
                        = IF p \in overlap /\ p \notin prevOverlap THEN 1 ELSE 0
                  /\ EventCount("exited", p[1], p[2])
                        = IF p \notin overlap /\ p \in prevOverlap THEN 1 ELSE 0
        /\ doubleEnter = {}

\* C24 (as claimed): a triggerDetection pass finds a detector inside a zone
\* exactly when their distance is strictly smaller than detector.radius +
\* zone.radius, for every radius, radius 0 included: after the pass the
\* identity of a detector that has one is in the zone's currentlyInside exactly
\* then (at radii 1 and 0.5: in at distance 1.4, out at 1.5 and 1.6).
C24_OverlapIsStrictSumOfRadii ==
    [][ trigPasses' # trigPasses =>
          \A i \in 1..Len(detectors), j \in 1..Len(zones) :
              (detectors[i].inStore /\ detectors[i].id # NoId) =>
                  ( detectors[i].id \in zones'[j].currentlyInside
                      <=> Distance(detectors[i].pos, zones[j].pos)
                              < detectors[i].radius + zones[j].radius ) ]_vars

\* C25 (as claimed): after every triggerDetection pass each zone's
\* currentlyInside holds exactly the identities of the detectors that are in the
\* store and overlap the zone (a detector removed from the store while inside
\* does not stay in the set), and no entry of the set stands for two distinct
\* detectors of the store.
C25_CurrentlyInsideIsOverlapSet ==
    [][ trigPasses' # trigPasses =>
          \A j \in 1..Len(zones) :
              /\ zones'[j].currentlyInside
                    = {detectors[i].id :
                          i \in {k \in 1..Len(detectors) :
                                    detectors[k].inStore /\ IsInside(detectors[k], zones[j])}}
              /\ \A x \in zones'[j].currentlyInside :
                    Cardinality({k \in 1..Len(detectors) :
                                    detectors[k].inStore /\ detectors[k].id = x}) <= 1 ]_vars

CtrlEventCount(ev, b) ==
    Cardinality({k \in 1..Len(ctrlEmitted) : ctrlEmitted[k] = CtrlEvent(ev, b)})

\* C26 (as claimed): after a controller collision pass, for every entity the
\* controller can touch, 'collision-started' flagged controllerCollision was
\* emitted for it exactly once if it is in the sweep results now and was not at
\* the pass before, 'collision-ended' exactly once if it was and is no longer,
\* and nothing otherwise, also when several entities are touched in one frame.
C26_ControllerEventsOncePerChange ==
    ctrlPasses > 0 =>
        \A b \in 1..Len(OtherEntities) :
            /\ CtrlEventCount("collision-started", b)
                  = IF b \in ctrlTouched \ ctrlPrevTouched THEN 1 ELSE 0
            /\ CtrlEventCount("collision-ended", b)
                  = IF b \in ctrlPrevTouched \ ctrlTouched THEN 1 ELSE 0

\* C9: for the machine A -> B when speed > 4, B -> A when speed < 4: an
\* evaluation in A with speed 5 ends in B; an evaluation in B with speed 3 ends
\* in A; every evaluation in B with speed 4.5 ends in B; and an evaluation with
\* speed exactly 4 leaves the state as it was, in A and in B.
C9_StrictThresholds ==
    (evals > 0 /\ stateMachine.definition.name = "ab") =>
        /\ (fsmTrace.from = "A" /\ fsmTrace.speed = 50) => stateMachine.currentState = "B"
        /\ (fsmTrace.from = "B" /\ fsmTrace.speed = 30) => stateMachine.currentState = "A"
        /\ (fsmTrace.from = "B" /\ fsmTrace.speed = 45) => stateMachine.currentState = "B"
        /\ fsmTrace.speed = 40 => stateMachine.currentState = fsmTrace.from

\* the machine went A -> B earlier and was then evaluated in B with speed exactly 4
C9_Witness ==
    /\ stateMachine.definition.name = "ab"
    /\ evals >= 2
    /\ fsmTrace.from = "B"
    /\ fsmTrace.speed = 40
    /\ stateMachine.currentState = "B"

\* The rules of the state the latest evaluation started in that its movementState
\* satisfied, by position in the list
SatisfiedRules ==
    LET transitions == stateMachine.definition.states[fsmTrace.from].transitions
        ms == [speed |-> fsmTrace.speed, grounded |-> fsmTrace.grounded]
    IN {k \in 1..Len(transitions) : evaluateCondition(ms, transitions[k].when)}

\* C10: after every evaluation the state is the target of the first listed rule
\* among the satisfied ones (and unchanged when none is satisfied); for the
\* player, an evaluation in idle, walk or run with grounded false ends in
\* airborne whatever the speed, and one in idle, grounded, with speed above 4
\* ends in run.
C10_FirstListedRuleWins ==
    evals > 0 =>
        /\ LET transitions == stateMachine.definition.states[fsmTrace.from].transitions
           IN IF SatisfiedRules = {}
              THEN stateMachine.currentState = fsmTrace.from
              ELSE \E k \in SatisfiedRules :
                      /\ \A m \in SatisfiedRules : k <= m
                      /\ stateMachine.currentState = transitions[k].to
        /\ stateMachine.definition.name = "player" =>
              /\ (fsmTrace.from \in {"idle", "walk", "run"} /\ ~fsmTrace.grounded)
                    => stateMachine.currentState = "airborne"
              /\ (fsmTrace.from = "idle" /\ fsmTrace.grounded /\ fsmTrace.speed > 40)
                    => stateMachine.currentState = "run"

\* the player was evaluated in idle with grounded false and speed 5: all three
\* rules of idle were satisfied and the state is airborne
C10_Witness ==
    /\ stateMachine.definition.name = "player"
    /\ evals > 0
    /\ fsmTrace.from = "idle"
    /\ ~fsmTrace.grounded
    /\ fsmTrace.speed = 50
    /\ Cardinality(SatisfiedRules) = 3
    /\ stateMachine.currentState = "airborne"

\* C27: createStateMachine throws when the definition has no initial state or
\* when its initial state is not a key of its states, and no component is made;
\* otherwise it returns a component with currentState = initial and stateTime 0.
C27_CreateValidatesInitial ==
    [][ smCreation' # smCreation =>
          LET definition == smCreation'.definition
          IN IF definition.initial = None \/ definition.initial \notin DOMAIN definition.states
             THEN smCreation'.threw /\ stateMachine' = stateMachine
             ELSE /\ ~smCreation'.threw
                  /\ stateMachine'.currentState = definition.initial
                  /\ stateMachine'.stateTime = 0 ]_vars

\* createStateMachine was called with a definition that names an initial state
\* its states do not have, and threw
C27_Witness ==
    /\ smCreation.made
    /\ smCreation.definition.initial = "C"
    /\ "C" \notin DOMAIN smCreation.definition.states
    /\ smCreation.threw

\* C28 (as claimed): for every machine built by createStateMachine and every
\* sequence of animationSystem evaluations, currentState is a key of the
\* machine's states.
C28_CurrentStateIsAKey ==
    (smCreation.made /\ ~smCreation.threw) =>
        stateMachine.currentState \in DOMAIN stateMachine.definition.states

\* C29 (as claimed): one animationSystem evaluation of an entity takes at most one
\* transition: when a rule of the current state is satisfied, currentState
\* becomes the target of a satisfied rule of that state (the rules of the new
\* state are not looked at in the same frame) and stateTime is 0; when none is
\* satisfied, currentState is unchanged and stateTime grew by the elapsed time.
C29_AtMostOneTransition ==
    [][ (evals' # evals /\ smCreation.withMovement) =>
          LET states == stateMachine.definition.states
              transitions == IF stateMachine.currentState \in DOMAIN states
                             THEN states[stateMachine.currentState].transitions
                             ELSE <<>>
              fired == {k \in 1..Len(transitions) :
                           evaluateCondition(movementState, transitions[k].when)}
          IN IF fired = {}
             THEN /\ stateMachine'.currentState = stateMachine.currentState
                  /\ stateMachine'.stateTime = stateMachine.stateTime + 1
             ELSE /\ \E k \in fired : stateMachine'.currentState = transitions[k].to
                  /\ stateMachine'.stateTime = 0 ]_vars

\* C30 (as claimed): every frame's animationSystem pass advances the mixer of
\* an entity that has a state machine and an animation mixer by the elapsed
\* time exactly once, whether or not a transition fired and whatever the
\* current state is.
C30_MixerAdvancedEveryFrame ==
    [][ evals' # evals => animationMixer'.time = animationMixer.time + 1 ]_vars

\* The callbacks invoked by the latest outermost emit for its own event, in order
TopListeners(log) ==
    LET top == SelectSeq(log, LAMBDA x : x.depth = 0)
    IN [k \in 1..Len(top) |-> top[k].listener]

Occurrences(listeners, callback) ==
    Cardinality({k \in 1..Len(listeners) : listeners[k] = callback})

\* C31: emit(eventName) invokes the callbacks that were subscribed to eventName
\* when it started, once per subscription and in subscription order, also when
\* a callback calls off() or on() for the event during the dispatch; a callback
\* subscribed during the dispatch is not invoked by that emit and is in the
\* list the next emit starts from.
C31_EmitDispatchesOverSnapshot ==
    [][ emits' # emits =>
          LET snapshot == eventListeners[busEvent']
          IN /\ TopListeners(busLog') = snapshot
             /\ Occurrences(snapshot, 2) = 0 =>
                    Occurrences(eventListeners'[busEvent'], 1)
                        = Occurrences(snapshot, 1) + Occurrences(snapshot, 3) ]_vars

\* the latest emit started with <<2, 1>> subscribed: callback 2 unsubscribed
\* callback 1 during the dispatch and callback 1 was invoked all the same
C31_Witness ==
    /\ emits > 0
    /\ busEvent = "outer"
    /\ TopListeners(busLog) = <<2, 1>>
    /\ eventListeners["outer"] = <<2>>

\* C39: a callback that throws during emit does not stop the dispatch and its
\* error does not reach the caller of emit: as many callbacks are invoked as
\* were subscribed; an event emitted from inside a callback is delivered to its
\* callbacks right after that callback was entered, before the next callback of
\* the outer event and before the outer emit returns.
C39_ThrowingListenerIsIsolated ==
    [][ emits' # emits =>
          /\ ~busThrew'
          /\ Len(TopListeners(busLog')) = Len(eventListeners[busEvent'])
          /\ \A i \in 1..Len(busLog') :
                (busLog'[i].depth = 0 /\ ListenerBody[busLog'[i].listener].kind = "emit") =>
                    LET inner == eventListeners["inner"]
                    IN /\ i + Len(inner) <= Len(busLog')
                       /\ \A k \in 1..Len(inner) :
                              busLog'[i + k] = BusEntry(inner[k], "inner", 1)
                       /\ i + Len(inner) < Len(busLog') =>
                              busLog'[i + Len(inner) + 1].depth = 0 ]_vars

\* the latest emit invoked callback 5, which emitted "inner": the throwing
\* callback 4 and then callback 1 got "inner", then the outer dispatch went on
C39_Witness ==
    /\ emits > 0
    /\ busEvent = "outer"
    /\ ~busThrew
    /\ busLog = << BusEntry(5, "outer", 0), BusEntry(4, "inner", 1),
                   BusEntry(1, "inner", 1), BusEntry(1, "outer", 0) >>

\* The handle stands for a collider that is there and carries an entity
Resolves(handle) == handle \in {1, 2}

\* C32: a contact event with a handle that does not resolve to an entity
\* (collider missing, no userData, no entity in userData) produces no event and
\* raises no error, and the other contact events of the drain are processed:
\* the pass emits one event per contact whose two handles resolve, in queue
\* order, and does not throw.
C32_UnresolvedContactsIgnored ==
    drains > 0 =>
        LET resolved == SelectSeq(contactQueue,
                            LAMBDA c : Resolves(c.handle1) /\ Resolves(c.handle2))
        IN /\ ~contactThrew
           /\ Len(contactEmitted) = Len(resolved)
           /\ \A k \in 1..Len(resolved) :
                  /\ contactEmitted[k].eventName
                        = IF resolved[k].started THEN "collision-started"
                                                 ELSE "collision-ended"
                  /\ contactEmitted[k].entityA = resolved[k].handle1
                  /\ contactEmitted[k].entityB = resolved[k].handle2

\* the drain handed out a contact with the handle of a collider that is gone and
\* then a contact between two entities: one event was emitted
C32_Witness ==
    /\ drains > 0
    /\ Len(contactQueue) = 2
    /\ contactQueue[1].handle1 = 5
    /\ Resolves(contactQueue[2].handle1) /\ Resolves(contactQueue[2].handle2)
    /\ Len(contactEmitted) = 1
    /\ ~contactThrew

\* C33: in a movement pass of an entity whose velocity is zero, the controller
\* makes no sweep and no next kinematic translation is set, so that the body's
\* translation is left as it is; the yaw rotation is applied all the same when
\* the direction is non-zero.
C33_ZeroSpeedSkipsSweep ==
    [][ (movePasses' # movePasses /\ kinMovement.velocity = ZeroVector) =>
          /\ ctrlSweeps' = ctrlSweeps
          /\ rigidBody'.next = rigidBody.next
          /\ rigidBody'.translation = rigidBody.translation
          /\ kinMovement.direction # ZeroVector =>
                 /\ rotationsSet' = rotationsSet + 1
                 /\ rigidBody'.yaw = Yaw(kinMovement.direction) ]_vars

\* a pass was made with velocity zero and direction (1, 0, 0), after the body
\* had moved: the body was turned, no sweep was made in that pass
C33_Witness ==
    /\ movePasses = 2
    /\ kinMovement = [velocity |-> ZeroVector, direction |-> <<1, 0, 0>>]
    /\ rigidBody = [translation |-> <<0, 0, 1>>, yaw |-> 90, next |-> NoNext]
    /\ ctrlSweeps = 1
    /\ rotationsSet = 1

\* The position in the latest frame's invocation sequence of the system named n
\* (0: not invoked)
RunIndex(n) ==
    IF \E k \in 1..Len(lastRun) : lastRun[k].name = n
    THEN CHOOSE k \in 1..Len(lastRun) : lastRun[k].name = n
    ELSE 0

\* C11 (as claimed): in every frame the core systems run in the order physics
\* step, physics-state sync, collision and trigger derivation, scene lifecycle
\* reconciliation, animation, transform sync, and then the render pass; so
\* trigger detection runs after the same frame's physics-state sync.
C11_CoreFrameOrder ==
    frameNo > 0 =>
        /\ RunIndex("physicsStep") > 0
        /\ RunIndex("physicsStep") < RunIndex("physicsStateSync")
        /\ RunIndex("physicsStateSync") < RunIndex("characterControllerCollisionProcessing")
        /\ RunIndex("physicsStateSync") < RunIndex("collisionProcessing")
        /\ RunIndex("physicsStateSync") < RunIndex("triggerDetection")
        /\ RunIndex("triggerDetection") < RunIndex("sceneManagement")
        /\ RunIndex("sceneManagement") < RunIndex("animation")
        /\ RunIndex("animation") < RunIndex("transformSync")
        /\ renders = frameNo

\* C12: runtime systems of equal priority stand in the list, after every
\* registration, in the order they were registered, and every frame invokes them
\* in that order; the game's 'animal-ai' (priority 40, registered before init)
\* runs before the core 'physicsStep' (priority 40, registered inside init).
C12_TiesKeepRegistrationOrder ==
    /\ \A i, j \in 1..Len(runtimeSystems) :
           (i < j /\ runtimeSystems[i].priority = runtimeSystems[j].priority)
               => runtimeSystems[i].seq < runtimeSystems[j].seq
    /\ frameNo > 0 =>
           /\ \A i, j \in 1..Len(lastRun) :
                  (i < j /\ lastRun[i].priority = lastRun[j].priority)
                      => lastRun[i].seq < lastRun[j].seq
           /\ \A i, j \in 1..Len(lastRun) :
                  (lastRun[i].name = "animal-ai" /\ lastRun[j].name = "physicsStep") => i < j

\* C12 witness: a frame ran in which 'animal-ai', registered twice by the game
\* with other registrations in between or after, ran twice and then 'physicsStep'.
C12_Witness ==
    /\ frameNo > 0
    /\ \E i \in 1..Len(lastRun) :
           /\ i + 2 <= Len(lastRun)
           /\ lastRun[i].name = "animal-ai"
           /\ lastRun[i + 1].name = "animal-ai"
           /\ lastRun[i + 2].name = "physicsStep"
    /\ \E k \in 1..Len(lastRun) : lastRun[k].name = "player-movement" /\ lastRun[k].seq > 1

\* C13 (as claimed): when a runtime system of the list declares a resource that
\* has no constructed instance, the frame ends there: no system standing after it
\* in the list is invoked and the render pass does not happen.
C13_UnresolvedDependencyIsFatal ==
    frameNo > 0 =>
        \A k \in 1..Len(runtimeSystems) :
            ~DepsAvailable(resources, runtimeSystems[k].deps) =>
                /\ \A j \in 1..Len(lastRun) :
                       \A h \in (k + 1)..Len(runtimeSystems) :
                           lastRun[j].seq # runtimeSystems[h].seq
                /\ renders < frameNo

\* C14: when init() has succeeded, the init procedure of every registered setup
\* routine, game-registered and core, was invoked exactly once by it and ran to
\* its end: none was skipped, none ran twice, none threw.
C14_EverySetupRunsOnce ==
    initialized =>
        \A k \in 1..Len(setupSystems) :
            /\ Cardinality(LogIndex("start", setupSystems[k].name)) = 1
            /\ Cardinality(LogIndex("end", setupSystems[k].name)) = 1
            /\ LogIndex("throw", setupSystems[k].name) = {}

\* C14 witness: init() succeeded with the terrain and the player routine
\* registered by the game before the three core routines, and all five ran.
C14_Witness ==
    /\ initialized
    /\ pc = "done"
    /\ NamesOf(setupSystems) = <<"game-terrain-setup", "game-player-setup",
                                 "lighting", "physicsBodyCreation", "camera">>
    /\ Len(setupLog) = 10

\* C15: init() fails with the 'unknown resource' error exactly for a routine one
\* of whose declared names is not in the registry: the error names the routine
\* and that name, the routine's init was not invoked and the engine is not
\* initialized; the 'not available' error is another error, raised for a name
\* that is in the registry without a constructed instance.
C15_UnknownResourceError ==
    /\ initError.kind = "unknownResource" =>
           /\ pc = "failed"
           /\ ~initialized
           /\ initError.name = setupSystems[si].name
           /\ \E k \in 1..Len(setupSystems[si].deps) : setupSystems[si].deps[k] = initError.cause
           /\ \A i \in 1..Len(resources) : resources[i].name # initError.cause
           /\ \A k \in 1..Len(setupLog) : setupLog[k].name # initError.name
    /\ (initError.kind = "setupFailed" /\ initError.cause[1] = "not available") =>
           /\ pc = "failed"
           /\ \E i \in 1..Len(resources) :
                  resources[i].name = initError.cause[2] /\ resources[i].inst = NullInstance
           /\ \A k \in 1..Len(setupLog) : setupLog[k].name # initError.name

\* C15 witness: the player routine, which declares 'terrain', came up in a boot
\* where nothing had registered or published 'terrain', after the factories ran.
C15_Witness ==
    /\ initError = Err("unknownResource", "game-player-setup", "terrain")
    /\ pc = "failed"
    /\ \E i \in 1..Len(resources) : resources[i].name = "renderer" /\ resources[i].inst # NullInstance

\* The name n holds a constructed instance in the registry
Constructed(n) ==
    \E i \in 1..Len(resources) : resources[i].name = n /\ resources[i].inst # NullInstance

ResourceNames ==
    {"eventBus", "renderer", "physics", "input", "assets", "lighting", "camera",
     "terrain", "audio", "resA"}

\* C16: every setup routine whose init was invoked and every runtime system whose
\* update was invoked in the latest frame has a constructed instance under each
\* name it declares, and getResource(name) throws exactly for the names that are
\* unregistered or registered without a constructed instance.
C16_OnlyConstructedResourcesHandedOut ==
    /\ \A k \in 1..Len(setupLog) :
           \A i \in 1..Len(setupSystems) :
               setupSystems[i].name = setupLog[k].name =>
                   \A d \in 1..Len(setupSystems[i].deps) : Constructed(setupSystems[i].deps[d])
    /\ frameNo > 0 =>
           \A j \in 1..Len(lastRun) :
               \A i \in 1..Len(runtimeSystems) :
                   runtimeSystems[i].seq = lastRun[j].seq =>
                       \A d \in 1..Len(runtimeSystems[i].deps) :
                           Constructed(runtimeSystems[i].deps[d])
    /\ \A n \in ResourceNames : getResourceThrows(resources, n) <=> ~Constructed(n)

\* C16 witness: 'terrain' is registered and its factory settled with no instance;
\* init() succeeded without a routine that declares it, and a frame ran without
\* invoking 'animal-ai', which declares it.
C16_Witness ==
    /\ frameNo > 0
    /\ \E i \in 1..Len(resources) :
           resources[i].name = "terrain" /\ resources[i].inst = NullInstance
    /\ \E i \in 1..Len(runtimeSystems) : runtimeSystems[i].name = "animal-ai"
    /\ \A j \in 1..Len(lastRun) : lastRun[j].name # "animal-ai"
    /\ Len(lastRun) > 0

FactoryStarts(n) == {k \in 1..Len(factoryLog) : factoryLog[k].ev = "start" /\ factoryLog[k].name = n}

\* C17 (as claimed): over the life of the engine, whatever init() calls are made,
\* the factory of a registered resource is invoked at most once, and exactly once
\* when the engine is initialized.
C17_FactoryInvokedOnce ==
    \A i \in 1..Len(resources) :
        /\ Cardinality(FactoryStarts(resources[i].name)) <= 1
        /\ (initialized /\ resources[i].factory) =>
               Cardinality(FactoryStarts(resources[i].name)) = 1

\* The events of the factories invoked by the latest init() call that invoked any
\* (a call on an initialized engine throws before it does anything)
CurrentFactoryLog ==
    SelectSeq(factoryLog, LAMBDA e : e.call = factoryLog[Len(factoryLog)].call)

\* C18: within an init() call the factories are invoked in the registry's order
\* (the order of first registration), a factory is invoked only after the one
\* before it has settled, and when the first setup routine's init starts every
\* factory invoked has completed and every entry that has a factory was invoked.
C18_FactoriesInOrderAndAwaited ==
    LET log == CurrentFactoryLog
    IN /\ \A k \in 1..Len(log) :
              IF k % 2 = 1
              THEN log[k].ev = "start"
              ELSE log[k].ev \in {"end", "throw"} /\ log[k].name = log[k - 1].name
       /\ \A j, k \in 1..Len(log) :
              (j < k /\ log[j].ev = "start" /\ log[k].ev = "start")
                  => ResIndex(resources, log[j].name) < ResIndex(resources, log[k].name)
       /\ setupLog # <<>> =>
              /\ Len(log) % 2 = 0
              /\ \A k \in 1..Len(log) : log[k].ev # "throw"
              /\ \A i \in 1..Len(resources) :
                     resources[i].factory =>
                         \E k \in 1..Len(log) :
                             log[k].ev = "end" /\ log[k].name = resources[i].name

\* C18 witness: the game registered 'terrain' before init(); its factory and the
\* four core factories were invoked in that order and the first routine started.
C18_Witness ==
    /\ initCalls = 1
    /\ Len(setupLog) = 1
    /\ [k \in 1..Len(factoryLog) |-> factoryLog[k].name] =
           <<"terrain", "terrain", "renderer", "renderer", "physics", "physics",
             "input", "input", "assets", "assets">>

\* C19: once init() has completed successfully, every call of registerResource,
\* registerSetup and registerSystem throws and leaves the resource registry, the
\* setup list and the runtime system list as they were.
C19_RegisterAfterInitThrows ==
    [][ ( /\ initialized
          /\ pc = "done"
          /\ lastCall'.n # lastCall.n
          /\ lastCall'.op \in {"registerResource", "registerSetup", "registerSystem"} )
        => ( /\ lastCall'.threw
             /\ resources' = resources
             /\ setupSystems' = setupSystems
             /\ runtimeSystems' = runtimeSystems ) ]_vars

\* C19 witness: after a successful init() that the game had prepared with a
\* registration, a registerSystem call threw.
C19_Witness ==
    /\ initialized
    /\ pc = "done"
    /\ lastCall.n > 1
    /\ lastCall.op = "registerSystem"
    /\ lastCall.threw

\* The registry res with the entry of n taken out
Others(res, n) == SelectSeq(res, LAMBDA e : e.name # n)

C21_DuplicateRegistrationThrows ==
    [][ ( /\ lastCall'.n # lastCall.n
          /\ lastCall'.op \in {"registerResource", "addResource"}
          /\ \E i \in 1..Len(resources) : resources[i].name = lastCall'.name )
        => ( lastCall'.threw /\ resources' = resources ) ]_vars

\* The mesh factory of entity e was invoked in the step and threw
FactoryThrewInStep(e) ==
    /\ Count(calls'.factory, e) = Count(calls.factory, e) + 1
    /\ lastOutcome'[e] = "throw"

\* C22: when the mesh factory of an entity throws in a sceneManagement pass, the
\* pass leaves the entity without needsMesh and without mesh, with nothing of it
\* in the scene or in trackedMeshes, and every other entity of the store has been
\* processed by the same pass (none still needs a mesh; one whose factory built a
\* mesh has it in the scene); the factory of an entity whose latest invocation
\* threw is never invoked again.
C22_ThrowingMeshFactory ==
    /\ [][ passNo' # passNo =>
             \A e \in Range(world) :
                 FactoryThrewInStep(e) =>
                     /\ ~ents'[e].needsMesh
                     /\ ents'[e].mesh = NoMesh
                     /\ \A m \in scene' : m.ent # e
                     /\ TrackedFor(trackedMeshes', e) = {}
                     /\ \A o \in Range(world) \ {e} :
                            /\ ~ents'[o].needsMesh
                            /\ (Count(calls'.factory, o) > Count(calls.factory, o)
                                /\ lastOutcome'[o] = "mesh")
                                   => ents'[o].mesh \in scene' ]_vars
    /\ [][ \A e \in DOMAIN lastOutcome :
             lastOutcome[e] = "throw" => calls'.factory[e] = calls.factory[e] ]_vars

\* C22 witness: in the first pass the factory of entity 1 threw and the factory
\* of entity 2, after it in the store, built a mesh that is in the scene; a
\* second pass has run since.
C22_Witness ==
    /\ passNo = 2
    /\ Len(ents) = 2
    /\ Len(world) = 2
    /\ 1 \in DOMAIN lastOutcome
    /\ lastOutcome[1] = "throw"
    /\ Count(calls.factory, 1) = 1
    /\ ents[2].mesh = MeshOf(2, 1)
    /\ MeshOf(2, 1) \in scene

\* C23 (as claimed): every retry sweep gives a physicsBody to each entity that
\* is missing one and whose body factory now returns a body, whatever its tag
\* and whether it was added before or after boot; it invokes the factory of no
\* entity that has a body, so that an entity gets one physicsBody from one
\* successful factory call.
C23_RetrySweepCoversMissingBodies ==
    [][ sweeps' # sweeps =>
          \A e \in 1..Len(bodyEnts) :
              /\ (bodyEnts[e].inStore /\ bodyEnts[e].body = NoBody
                    /\ FactoryBuilds(bodyEnts[e]))
                     => bodyEnts'[e].body # NoBody
              /\ bodyEnts[e].body # NoBody => bodyEnts'[e] = bodyEnts[e] ]_vars

\* C34: after an entity has been removed from the store, no mesh factory and no
\* body factory is invoked for it by any later pass, also when its needsMesh
\* flag was still set or its body was still missing when it was removed.
C34_NoFactoryAfterRemoval ==
    [][ /\ \A e \in 1..Len(ents) :
              e \notin Range(world) => Count(calls'.factory, e) = Count(calls.factory, e)
        /\ \A e \in 1..Len(bodyEnts) :
              ~bodyEnts[e].inStore => bodyEnts'[e].factoryCalls = bodyEnts[e].factoryCalls
      ]_vars

\* a mesh collider whose mesh is loaded was removed from the store without a
\* body, a retry sweep ran after that and its factory was not invoked
C34_Witness ==
    \E e \in 1..Len(bodyEnts) :
        /\ ~bodyEnts[e].inStore
        /\ bodyEnts[e].tag = "isMeshCollider"
        /\ bodyEnts[e].ready
        /\ bodyEnts[e].body = NoBody
        /\ sweeps > bodyEnts[e].removedAt
        /\ bodyEnts[e].factoryCalls = 0

\* C37 (as claimed): every physics body that was attached to an entity has been
\* removed from the physics world (removeCollider and removeRigidBody called for
\* it) once a sceneManagement pass has run after the entity was removed from
\* the store, whenever the body was attached and whenever the entity was
\* removed. Stated for stores whose mesh associations are all defined, so that
\* no cleanup pass is cut short.
C37_AttachedBodyIsRemoved ==
    \A e \in DOMAIN removedAt :
        ( /\ ents[e].body # NoBody
          /\ passNo > removedAt[e].pass
          /\ UndefinedMesh \notin TrackedKeys(trackedMeshes) )
        => /\ Count(calls.removeCollider, ents[e].body) >= 1
           /\ Count(calls.removeRigidBody, ents[e].body) >= 1

\* C35: an update() call made while the engine is not initialized throws and runs
\* no system; a frame runs only once the engine is initialized, every resource
\* factory of the init() call has settled with a value and every registered
\* setup routine has run to its end without a throw; an init() call on an
\* initialized engine throws and starts no frame loop, so that at most one loop
\* is ever started.
C35_FramesOnlyOnceInitialized ==
    [][ /\ (lastCall'.n > lastCall.n /\ lastCall'.op = "update" /\ ~initialized)
            => (lastCall'.threw /\ frameNo' = frameNo)
        /\ frameNo' > frameNo
            => /\ initialized'
               /\ \A i \in 1..Len(resources') :
                      resources'[i].factory =>
                          \E k \in 1..Len(factoryLog') :
                              /\ factoryLog'[k] = [ev |-> "end", name |-> resources'[i].name,
                                                   call |-> factoryLog'[Len(factoryLog')].call]
               /\ \A k \in 1..Len(setupLog') : setupLog'[k].ev # "throw"
               /\ \A k \in 1..Len(setupSystems') :
                      \E j \in 1..Len(setupLog') :
                          setupLog'[j] = [ev |-> "end", name |-> setupSystems'[k].name]
        /\ (initCalls' > initCalls /\ initialized)
            => /\ pc' = "failed"
               /\ initError'.kind = "alreadyInitialized"
               /\ loops' = loops
               /\ frameNo' = frameNo
        /\ loops' <= 1
      ]_vars

\* update() was called before the boot was over and threw, the boot succeeded
\* and a frame ran, and a second init() call was rejected
C35_Witness ==
    /\ lastCall.op = "update"
    /\ lastCall.threw
    /\ initialized
    /\ frameNo > 0
    /\ loops = 1
    /\ initCalls = 2
    /\ initError.kind = "alreadyInitialized"

\* C38 (as claimed): when init() is called a second time while the first call
\* still waits for a resource factory or a setup routine, the second call is
\* rejected and registers nothing; every core system is in the runtime list
\* once, every resource factory and every setup routine is started at most
\* once, and at most one frame loop is started.
C38_OverlappingInitRejected ==
    [][ /\ (initCalls' > initCalls /\ initCalls > 0)
            => /\ pc' = "failed"
               /\ initError'.kind = "alreadyInitialized"
               /\ runtimeSystems' = runtimeSystems
               /\ setupSystems' = setupSystems
               /\ resources' = resources
        /\ \A c \in 1..Len(CoreSystems) :
               Cardinality({k \in 1..Len(runtimeSystems') :
                               runtimeSystems'[k].name = CoreSystems[c].name}) <= 1
        /\ \A i \in 1..Len(resources') :
               Cardinality({k \in 1..Len(factoryLog') :
                               /\ factoryLog'[k].ev = "start"
                               /\ factoryLog'[k].name = resources'[i].name}) <= 1
        /\ \A i \in 1..Len(setupSystems') :
               Cardinality({k \in 1..Len(setupLog') :
                               setupLog'[k] = [ev |-> "start",
                                               name |-> setupSystems'[i].name]}) <= 1
        /\ loops' <= 1
      ]_vars

\* C36: a removeSugarcane call visits every entity that was in the isSugarcane
\* query when it started exactly once, and when it returns the query is empty,
\* no entity with the tag is left in the store, and the store holds exactly the
\* entities without the tag that it held before.
C36_HarvestRemovesAllSugarcane ==
    [][ harvests' > harvests =>
          /\ Range(harvestVisited') = Range(sugarcaneQuery)
          /\ Len(harvestVisited') = Len(sugarcaneQuery)
          /\ sugarcaneQuery' = <<>>
          /\ \A i \in 1..Len(storeEntities') : ~placed[storeEntities'[i]]
          /\ Range(storeEntities') = {e \in Range(storeEntities) : ~placed[e]}
          /\ Len(storeEntities') = Cardinality(Range(storeEntities'))
      ]_vars

\* a harvest that visited three sugarcane entities and left an untagged one
C36_Witness ==
    /\ harvests > 0
    /\ Len(harvestVisited) = 3
    /\ Len(storeEntities) = 1
    /\ sugarcaneQuery = <<>>

\* C40 (as claimed): once the phase is WIN it stays WIN in every step that is
\* not a restartGame call, also in the steps of the timers proceedToNextYear
\* scheduled; and a proceedToNextYear call made in the last year leaves the
\* phase at WIN or at GAME_OVER, GAME_OVER exactly when the game was not won.
C40_WinIsKeptUntilRestart ==
    [][ /\ (gamePhase = "WIN" /\ restarts' = restarts) => gamePhase' = "WIN"
        /\ ( /\ gamePhase = "POST_HARVEST"
             /\ currentYear = LastYear
             /\ actionButton
             /\ ~actionButton'
             /\ restarts' = restarts )
           => /\ gamePhase' \in {"WIN", "GAME_OVER"}
              /\ gamePhase' = "WIN"
                    <=> \E met \in BOOLEAN :
                            allMetConditions(Append(performanceHistory, met))
                            /\ performanceHistory' = performanceHistory
      ]_vars
====
